---- MODULE Spec2Model ----
(***************************************************************************)
(* Model of the network associations stack of the accelerator              *)
(* (NetworkAssociationsStack): the constructor builds, for one (account,   *)
(* region) scope, the transit gateway, VPC peering and Direct Connect      *)
(* graphs from the network configuration.  Every construct the stack       *)
(* creates is appended to the log `emitted`; the maps of resolved          *)
(* identifiers are the instance fields of the stack.                       *)
(***************************************************************************)
EXTENDS Integers, Sequences, FiniteSets, TLC

\* ------------------------------------------------------------------ bounds
\* Longest list of VPC items in a generated network configuration.
MaxVpcs == 2
\* Longest list of route entries in a generated transit gateway route table.
MaxTgwRoutes == 1

\* ------------------------------------------------------------------ values
\* `undefined` for an optional string property of the configuration.
Undefined == "undefined"

\* `undefined` where a resolved identifier is expected.
NoId == [via |-> "undefined", name |-> "", account |-> "", region |-> "", detail |-> ""]

\* No error thrown so far.
NoErr == [kind |-> "none", names |-> <<>>]

\* Map<string, string>: a function whose domain is the set of keys.
EmptyMap == [k \in {} |-> NoId]

MapHas(m, k) == k \in DOMAIN m

MapGet(m, k) == IF k \in DOMAIN m THEN m[k] ELSE NoId

MapSet(m, k, v) == [x \in (DOMAIN m) \cup {k} |-> IF x = k THEN v ELSE m[x]]

\* Array.prototype.includes on a list.
Includes(s, x) == \E i \in 1..Len(s) : s[i] = x

\* The elements of a list, as a set.
Range(s) == {s[i] : i \in 1..Len(s)}

\* The lists of length at most n without repetition over the set S.
SeqsUpTo(S, n) == UNION {{s \in [1..k -> S] : \A i, j \in 1..k : i # j => s[i] # s[j]} : k \in 0..n}

\* for (const x of s) { body }, where a throw in the body ends the loop:
\* t is the stack's state, Op(t, x) the body.
ForEach(Op(_, _), t0, s) ==
    LET f[i \in 0..Len(s)] ==
            IF i = 0 THEN t0
            ELSE IF f[i - 1].err # NoErr THEN f[i - 1]
            ELSE Op(f[i - 1], s[i])
    IN  f[Len(s)]

\* ------------------------------------------------------------------ accounts
AccountNames == {"Network", "Shared"}

Regions == {"us-east-1", "us-west-2"}

\* accountsConfig.getAccountId: account name to account id.
GetAccountId(name) ==
    CASE name = "Network" -> "111111111111"
      [] name = "Shared" -> "222222222222"
      [] OTHER -> "000000000000"

\* globalConfig.homeRegion
HomeRegion == "us-east-1"

\* The (account, region) scopes of one run, one stack each.
AllScopes ==
    << [account |-> GetAccountId("Network"), region |-> "us-east-1"],
       [account |-> GetAccountId("Shared"), region |-> "us-west-2"],
       [account |-> GetAccountId("Network"), region |-> "us-west-2"],
       [account |-> GetAccountId("Shared"), region |-> "us-east-1"] >>

\* ------------------------------------------------------------------ configuration
\* A transit gateway route entry's `attachment`: `props` are the properties
\* the entry carries (the io-ts shape tests look at them), `defined` is false
\* for a route without attachment.
Attachment(props, account, vpcName, dxName, vpnName, peeringName) ==
    [defined |-> TRUE, props |-> props, account |-> account, vpcName |-> vpcName,
     directConnectGatewayName |-> dxName, vpnConnectionName |-> vpnName,
     transitGatewayPeeringName |-> peeringName]

NoAttachment ==
    [defined |-> FALSE, props |-> {}, account |-> Undefined, vpcName |-> Undefined,
     directConnectGatewayName |-> Undefined, vpnConnectionName |-> Undefined,
     transitGatewayPeeringName |-> Undefined]

VpcAttachment(account, vpcName) == Attachment({"account", "vpcName"}, account, vpcName, Undefined, Undefined, Undefined)

DxAttachment(dxName) == Attachment({"directConnectGatewayName"}, Undefined, Undefined, dxName, Undefined, Undefined)

VpnAttachment(vpnName) == Attachment({"vpnConnectionName"}, Undefined, Undefined, Undefined, vpnName, Undefined)

PeeringAttachment(name) == Attachment({"transitGatewayPeeringName"}, Undefined, Undefined, Undefined, Undefined, name)

\* TransitGatewayRouteEntryConfig
TgwRoute(cidr, prefixList, blackhole, attachment) ==
    [destinationCidrBlock |-> cidr, destinationPrefixList |-> prefixList,
     blackhole |-> blackhole, attachment |-> attachment]

\* The route entries a generated transit gateway route table draws from.
TgwRoutePool ==
    { TgwRoute("10.0.0.0/8", Undefined, TRUE, NoAttachment),
      TgwRoute("10.1.0.0/16", Undefined, FALSE, VpcAttachment("Network", "Endpoints")),
      TgwRoute("10.2.0.0/16", Undefined, FALSE, VpcAttachment("Shared", "Nowhere")),
      TgwRoute("10.3.0.0/16", Undefined, FALSE, DxAttachment("OnPrem")),
      TgwRoute("10.4.0.0/16", Undefined, FALSE, VpnAttachment("OnPrem")),
      TgwRoute("10.5.0.0/16", Undefined, FALSE, PeeringAttachment("MainToEdge")),
      TgwRoute("10.6.0.0/16", Undefined, FALSE, PeeringAttachment("Unknown")),
      TgwRoute("10.7.0.0/16", Undefined, FALSE, Attachment({"vpcName"}, Undefined, "Endpoints", Undefined, Undefined, Undefined)),
      TgwRoute(Undefined, "CorpPrefixes", FALSE, VpcAttachment("Network", "Endpoints")),
      TgwRoute(Undefined, "CorpPrefixes", FALSE, VpnAttachment("Missing")),
      TgwRoute(Undefined, "NoSuchList", TRUE, NoAttachment) }

\* TransitGatewayConfig with one route table `Core` holding `routes`.
Tgw(name, account, region, routes) ==
    [name |-> name, account |-> account, region |-> region,
     routeTables |-> << [name |-> "Core", routes |-> routes] >>]

\* networkConfig.transitGateways of every generated configuration.
TransitGateways(routes) ==
    << Tgw("Main", "Network", "us-east-1", routes),
       Tgw("Second", "Network", "us-east-1", <<>>),
       Tgw("Edge", "Shared", "us-west-2", <<>>) >>

\* networkConfig.transitGatewayPeering
TransitGatewayPeering ==
    << [name |-> "MainToEdge",
        requester |-> [transitGatewayName |-> "Main", account |-> "Network", region |-> "us-east-1"],
        accepter |-> [transitGatewayName |-> "Edge", account |-> "Shared", region |-> "us-west-2"]] >>

\* TransitGatewayAttachmentConfig of a VPC
TgwAttachment(name, tgwName, tgwAccount, associations, propagations) ==
    [name |-> name, transitGateway |-> [name |-> tgwName, account |-> tgwAccount],
     routeTableAssociations |-> associations, routeTablePropagations |-> propagations]

\* A route table entry of a VPC route table.
VpcRoute(name, type, target, destination, prefixList) ==
    [name |-> name, type |-> type, target |-> target, destination |-> destination,
     destinationPrefixList |-> prefixList]

\* VpcConfig (isTemplate = FALSE, one account) or VpcTemplatesConfig
\* (isTemplate = TRUE, the accounts of its deployment targets).
Vpc(name, isTemplate, accounts, excluded, region, routeTables, attachments) ==
    [name |-> name, isTemplate |-> isTemplate, account |-> accounts[1], accounts |-> accounts,
     excludedAccounts |-> excluded, region |-> region, routeTables |-> routeTables,
     transitGatewayAttachments |-> attachments, subnets |-> <<>>,
     dnsFirewallRuleGroups |-> <<>>, queryLogs |-> <<>>, resolverRules |-> <<>>,
     gatewayEndpoints |-> Undefined, interfaceEndpoints |-> Undefined]

\* The VPC items the transit gateway configurations draw from.
TgwVpcPool ==
    { Vpc("Endpoints", FALSE, <<"Network">>, {}, "us-east-1", <<>>,
          << TgwAttachment("Endpoints-Main", "Main", "Network", <<"Core">>, <<"Core">>) >>),
      Vpc("Workload", FALSE, <<"Shared">>, {}, "us-east-1", <<>>,
          << TgwAttachment("Workload-Main", "Main", "Network", <<"Core">>, <<"Core">>) >>),
      Vpc("Dual", FALSE, <<"Network">>, {}, "us-east-1", <<>>,
          << TgwAttachment("Dual-Main", "Main", "Network", <<"Core">>, <<>>),
             TgwAttachment("Dual-Second", "Second", "Network", <<"Core">>, <<"Core">>) >>),
      Vpc("Orphan", FALSE, <<"Network">>, {}, "us-east-1", <<>>,
          << TgwAttachment("Orphan-Absent", "Absent", "Network", <<"Core">>, <<>>) >>),
      Vpc("Stray", FALSE, <<"Network">>, {}, "us-east-1", <<>>,
          << TgwAttachment("Stray-Main", "Main", "Network", <<"NoTable">>, <<>>) >>),
      Vpc("Spoke", TRUE, <<"Network", "Shared">>, {}, "us-east-1", <<>>,
          << TgwAttachment("Spoke-Main", "Main", "Network", <<>>, <<"Core">>) >>) }

\* VpnConnectionConfig
Vpn(name, tgwName, associations, propagations) ==
    [name |-> name, transitGateway |-> tgwName, routeTableAssociations |-> associations,
     routeTablePropagations |-> propagations]

\* CustomerGatewayConfig
Cgw(name, account, region, vpns) ==
    [name |-> name, account |-> account, region |-> region, vpnConnections |-> vpns]

\* networkConfig.customerGateways of the generated configurations.
CgwChoices ==
    { <<>>,
      << Cgw("Office", "Network", "us-east-1", << Vpn("OnPrem", "Main", <<"Core">>, <<"Core">>) >>) >>,
      << Cgw("Office", "Network", "us-east-1", << Vpn("Branch", "Gone", <<"Core">>, <<>>) >>) >>,
      << Cgw("Office", "Network", "us-east-1", << Vpn("Lab", Undefined, <<"Core">>, <<>>) >>) >> }

\* DxTransitGatewayAssociationConfig
DxAssociation(tgwName, tgwAccount, associations, propagations) ==
    [name |-> tgwName, account |-> tgwAccount, allowedPrefixes |-> <<"10.0.0.0/8">>,
     routeTableAssociations |-> associations, routeTablePropagations |-> propagations]

\* DxGatewayConfig
Dxgw(name, account, associations) ==
    [name |-> name, account |-> account, transitGatewayAssociations |-> associations]

\* networkConfig.directConnectGateways of the generated configurations.
DxChoices ==
    { <<>>,
      << Dxgw("OnPrem", "Network", << DxAssociation("Main", "Network", <<"Core">>, <<"Core">>) >>) >>,
      << Dxgw("OnPrem", "Shared", << DxAssociation("Main", "Network", <<"Core">>, <<"Core">>) >>) >>,
      << Dxgw("Colo", "Network", << DxAssociation("Main", "Network", <<>>, <<"Core">>) >>) >>,
      << Dxgw("Colo", "Network", << DxAssociation("Absent", "Network", <<"Core">>, <<>>) >>) >>,
      << Dxgw("Colo", "Shared", << DxAssociation("Edge", "Shared", <<"Core">>, <<>>) >>) >> }

\* PrefixListConfig
PrefixList(name, accounts, regions) == [name |-> name, accounts |-> accounts, regions |-> regions]

\* networkConfig.prefixLists of every generated configuration.
PrefixLists ==
    << PrefixList("CorpPrefixes", <<"Network">>, <<"us-east-1">>),
       PrefixList("SharedPrefixes", <<"Shared">>, <<"us-west-2", "us-east-1">>) >>

\* VpcPeeringConfig
Peering(name, requester, accepter) == [name |-> name, vpcs |-> <<requester, accepter>>, tags |-> <<>>]

\* The route entries the accepter VPC of peering `HubSpoke` may carry.
AccepterRouteChoices ==
    { <<>>,
      << VpcRoute("ToHub", "vpcPeering", "HubSpoke", "10.8.0.0/16", Undefined) >>,
      << VpcRoute("ToHubList", "vpcPeering", "HubSpoke", Undefined, "SharedPrefixes") >>,
      << VpcRoute("ToHub", "vpcPeering", "HubSpoke", "10.8.0.0/16", Undefined),
         VpcRoute("ToNat", "natGateway", "Nat", "0.0.0.0/0", Undefined) >> }

\* The requester VPC of peerings `HubSpoke` and `HubBranch` and the accepter
\* of `RemoteHub`.
HubVpc ==
    Vpc("Hub", FALSE, <<"Network">>, {}, "us-east-1",
        << [name |-> "Rt",
            routes |-> << VpcRoute("ToSpoke", "vpcPeering", "HubSpoke", "10.9.0.0/16", Undefined),
                          VpcRoute("ToSpokeList", "vpcPeering", "HubSpoke", Undefined, "CorpPrefixes"),
                          VpcRoute("ToBranch", "vpcPeering", "HubBranch", "10.10.0.0/16", Undefined),
                          VpcRoute("ToRemote", "vpcPeering", "RemoteHub", "10.11.0.0/16", Undefined) >>] >>,
        <<>>)

SpokeVpc(account, region, routes) ==
    Vpc("Spoke", FALSE, <<account>>, {}, region, << [name |-> "Rt", routes |-> routes] >>, <<>>)

BranchVpc ==
    Vpc("Branch", FALSE, <<"Shared">>, {}, "us-west-2",
        << [name |-> "BranchRt",
            routes |-> << VpcRoute("ToHub", "vpcPeering", "HubBranch", "10.8.0.0/16", Undefined) >>] >>,
        <<>>)

RemoteVpc ==
    Vpc("Remote", FALSE, <<"Shared">>, {}, "us-west-2",
        << [name |-> "RemoteRt",
            routes |-> << VpcRoute("ToNat", "natGateway", "Nat", "0.0.0.0/0", Undefined) >>] >>,
        <<>>)

\* A second peering of the configuration: none, a second cross-scope pair
\* requested by Hub, or a pair requested from the other scope.
SecondPeeringChoices == {"none", "HubBranch", "RemoteHub"}

\* CentralNetworkServicesConfig: the delegated administrator account, the
\* Gateway Load Balancers and the firewalls of networkFirewall.
CentralNetworkServices(delegatedAdminAccount, gatewayLoadBalancers, firewalls) ==
    [delegatedAdminAccount |-> delegatedAdminAccount,
     gatewayLoadBalancers |-> gatewayLoadBalancers,
     networkFirewall |-> [firewalls |-> firewalls],
     route53Resolver |-> [queryLogs |-> [destinations |-> <<>>]]]

\* networkConfig.centralNetworkServices of a configuration that has none of them.
NoCentralNetworkServices == CentralNetworkServices("Network", <<>>, <<>>)

\* NetworkConfig
NetworkConfig(vpcs, templates, routes, cgws, dxgws, peerings) ==
    [transitGateways |-> TransitGateways(routes),
     transitGatewayPeering |-> TransitGatewayPeering,
     vpcs |-> vpcs, vpcTemplates |-> templates,
     customerGateways |-> cgws, directConnectGateways |-> dxgws,
     vpcPeering |-> peerings, prefixLists |-> PrefixLists,
     centralNetworkServices |-> NoCentralNetworkServices]

IsTemplate(v) == v.isTemplate

IsNotTemplate(v) == ~v.isTemplate

\* Configurations that vary the VPC, VPN and Direct Connect attachments.
AttachmentConfigs ==
    { NetworkConfig(SelectSeq(s, IsNotTemplate), SelectSeq(s, IsTemplate), <<>>, cgws, dxgws, <<>>) :
        s \in SeqsUpTo(TgwVpcPool, MaxVpcs), cgws \in CgwChoices, dxgws \in {d \in DxChoices : Len(d) = 0 \/ d[1].name = "OnPrem"} }

\* Configurations that vary the transit gateway route entries.
RouteConfigs ==
    { NetworkConfig(<<v>>, <<>>, routes, cgws, dxgws, <<>>) :
        v \in {x \in TgwVpcPool : x.name = "Endpoints"},
        routes \in SeqsUpTo(TgwRoutePool, MaxTgwRoutes),
        cgws \in {c \in CgwChoices : Len(c) = 0 \/ c[1].vpnConnections[1].name = "OnPrem"},
        dxgws \in DxChoices }

\* Configurations that vary the VPC peering pairs.
PeeringConfigs ==
    { NetworkConfig(
          << HubVpc, SpokeVpc(a, r, routes) >>
              \o (IF second = "HubBranch" THEN <<BranchVpc>> ELSE <<>>)
              \o (IF second = "RemoteHub" THEN <<RemoteVpc>> ELSE <<>>),
          <<>>, <<>>, <<>>, <<>>,
          << Peering("HubSpoke", "Hub", "Spoke") >>
              \o (IF second = "HubBranch" THEN << Peering("HubBranch", "Hub", "Branch") >> ELSE <<>>)
              \o (IF second = "RemoteHub" THEN << Peering("RemoteHub", "Remote", "Hub") >> ELSE <<>>)) :
        a \in AccountNames, r \in Regions, routes \in AccepterRouteChoices,
        second \in SecondPeeringChoices }

\* The configurations a run starts from.
Configs == AttachmentConfigs \cup RouteConfigs \cup PeeringConfigs

\* ------------------------------------------------------------------ state
VARIABLES
    cfg,                        \* props.networkConfig
    dxPublishes,                \* whether a DX gateway association exposes an attachment id
    scopeIdx,                   \* index in AllScopes of the stack under construction
    pc,                         \* position in the constructor
    stack,                      \* cdk.Stack.of(this): account id and region
    peeringList,
    crossAcctRouteProvider,
    prefixListMap,
    routeTableMap,
    transitGateways,
    transitGatewayRouteTables,
    transitGatewayAttachments,
    dxGatewayMap,
    vpcMap,                     \* maps of NetworkVpcEndpointsStack and NetworkAssociationsGwlbStack
    subnetMap,
    gwlbMap,
    targetGroupMap,
    firewallMap,
    nfwPolicyMap,
    dnsFirewallMap,             \* maps of createCentralNetworkAssociations
    queryLogMap,
    resolverRuleMap,
    emitted,                    \* constructs created and attachment map writes of this run, in order
    err,                        \* the error thrown by the constructor, if any
    results,                    \* outcome of each finished stack
    pipeline,                   \* stages of the AcceleratorPipeline, in the order they were added
    actionState,                \* state of each action of the pipeline's execution
    scopeState,                 \* state of each action's run in each of its scopes
    invocation,                 \* the describe-organization invocation in progress
    calls,                      \* remote calls of that invocation and how each ended
    validationErrors,           \* module-level arrays of the validate-environment handler
    orgAccountsToAdd,
    ctAccountsToAdd,
    awsOuKeys,
    newOrgAccountsTable,        \* items of the new-accounts tables
    newCTAccountsTable,
    invocations,                \* outcome of each finished invocation of a handler
    exclusionList,              \* the argument of prepareCloudWatchExclusionList
    loggingPc,                  \* position in prepareCloudWatchExclusionList
    processedItems,             \* its local arrays
    excludeItemsMapUnique,
    output                      \* the array it returns

vars == << cfg, dxPublishes, scopeIdx, pc, stack, peeringList, crossAcctRouteProvider,
           prefixListMap, routeTableMap, transitGateways, transitGatewayRouteTables,
           transitGatewayAttachments, dxGatewayMap, vpcMap, subnetMap, gwlbMap, targetGroupMap,
           firewallMap, nfwPolicyMap, dnsFirewallMap, queryLogMap, resolverRuleMap, emitted, err,
           results, pipeline, actionState,
           scopeState, invocation, calls, validationErrors, orgAccountsToAdd, ctAccountsToAdd,
           awsOuKeys, newOrgAccountsTable, newCTAccountsTable, invocations, exclusionList,
           loggingPc, processedItems, excludeItemsMapUnique, output >>

\* The maps of the stacks that create endpoints.
endpointVars == << vpcMap, subnetMap, gwlbMap, targetGroupMap, firewallMap, nfwPolicyMap >>

\* The maps of the central network associations.
centralVars == << dnsFirewallMap, queryLogMap, resolverRuleMap >>

\* The state of the stacks under construction.
stackVars == << cfg, dxPublishes, scopeIdx, pc, stack, peeringList, crossAcctRouteProvider,
                prefixListMap, routeTableMap, transitGateways, transitGatewayRouteTables,
                transitGatewayAttachments, dxGatewayMap, endpointVars, centralVars, emitted, err,
                results >>

\* The pipeline and its execution.
pipelineVars == << pipeline, actionState, scopeState >>

\* No pipeline has been constructed.
NoPipeline == pipeline = <<>> /\ actionState = <<>> /\ scopeState = <<>>

\* The state of the process that runs the custom resource handlers.
handlerVars == << invocation, calls, validationErrors, orgAccountsToAdd, ctAccountsToAdd, awsOuKeys,
                  newOrgAccountsTable, newCTAccountsTable, invocations >>

NoInvocation == [handler |-> "none"]

\* The state of a call of prepareCloudWatchExclusionList.
loggingVars == << exclusionList, loggingPc, processedItems, excludeItemsMapUnique, output >>

\* prepareCloudWatchExclusionList has not been called.
NoExclusions ==
    /\ exclusionList = <<>>
    /\ loggingPc = "none"
    /\ processedItems = <<>>
    /\ excludeItemsMapUnique = <<>>
    /\ output = <<>>

\* The handlers' module has been loaded and no handler has been invoked.
NoInvocations ==
    /\ invocation = NoInvocation
    /\ calls = <<>>
    /\ validationErrors = <<>>
    /\ orgAccountsToAdd = <<>>
    /\ ctAccountsToAdd = <<>>
    /\ awsOuKeys = <<>>
    /\ newOrgAccountsTable = {}
    /\ newCTAccountsTable = {}
    /\ invocations = <<>>

\* ------------------------------------------------------------------ identifiers
\* cdk.aws_ssm.StringParameter.valueForStringParameter(this, name): the value
\* of a parameter of the stack's own account and region.
SsmValue(name) ==
    [via |-> "ssm", name |-> name, account |-> stack.account, region |-> stack.region, detail |-> ""]

\* new SsmParameterLookup(...).value: the value of a parameter read in
\* account `accountId`, region `region` through an assumed role.
LookupValue(name, accountId, region) ==
    [via |-> "lookup", name |-> name, account |-> accountId, region |-> region, detail |-> ""]

\* TransitGatewayAttachment.fromLookup(...).transitGatewayAttachmentId
AttachmentLookupValue(name, owningAccountId, transitGatewayId, type) ==
    [via |-> "attachmentLookup", name |-> name, account |-> owningAccountId,
     region |-> stack.region, detail |-> type \o ":" \o transitGatewayId.name]

\* An attribute of a construct created by this stack.
AttributeValue(construct, attribute) ==
    [via |-> "attribute", name |-> construct, account |-> stack.account,
     region |-> stack.region, detail |-> attribute]

\* ------------------------------------------------------------------ the stack
\* A construct created by the stack: `src`, `item` and `sub` name the
\* configuration entry it is created for, `key` the map key its identifier was
\* read from or stored under, `att` that identifier, `rt` its route table
\* identifier, `owner` and `region` the account and region it addresses.
Construct(type, src, item, sub, key, att, rt, owner, region) ==
    [type |-> type, scope |-> stack, src |-> src, item |-> item, sub |-> sub, key |-> key,
     att |-> att, rt |-> rt, owner |-> owner, region |-> region]

\* The instance fields of the stack, with the constructs created so far and
\* the error thrown; `tmp` is the local map of the method running, `ret` the
\* value a method returns and `key` the map key it was read from.
This ==
    [peeringList |-> peeringList, crossAcctRouteProvider |-> crossAcctRouteProvider,
     prefixListMap |-> prefixListMap, routeTableMap |-> routeTableMap,
     transitGateways |-> transitGateways,
     transitGatewayRouteTables |-> transitGatewayRouteTables,
     transitGatewayAttachments |-> transitGatewayAttachments,
     dxGatewayMap |-> dxGatewayMap, vpcMap |-> vpcMap, subnetMap |-> subnetMap,
     gwlbMap |-> gwlbMap, targetGroupMap |-> targetGroupMap, firewallMap |-> firewallMap,
     nfwPolicyMap |-> nfwPolicyMap, dnsFirewallMap |-> dnsFirewallMap,
     queryLogMap |-> queryLogMap, resolverRuleMap |-> resolverRuleMap, emitted |-> emitted, err |-> err, tmp |-> EmptyMap, ret |-> NoId,
     key |-> Undefined]

\* new X(this, ...)
Emit(t, c) == [t EXCEPT !.emitted = Append(@, c)]

\* throw new Error(...): `names` are the configuration names in the message.
Throw(t, kind, names) == [t EXCEPT !.err = [kind |-> kind, names |-> names]]

\* The VPC item of the configuration named `name`, as
\* networkConfig.vpcs.filter(item => item.name === name)[0].
NoVpc == Vpc(Undefined, FALSE, <<Undefined>>, {}, Undefined, <<>>, <<>>)

FindVpc(name) ==
    LET hits == SelectSeq(cfg.vpcs, LAMBDA v : v.name = name)
    IN  IF Len(hits) = 0 THEN NoVpc ELSE hits[1]

\* [...networkConfig.vpcs, ...networkConfig.vpcTemplates]
AllVpcItems == cfg.vpcs \o cfg.vpcTemplates

\* getVpcAccountIds(vpcItem)
GetVpcAccountIds(vpcItem) ==
    {GetAccountId(vpcItem.accounts[i]) : i \in 1..Len(vpcItem.accounts)}

\* A variant of the test of setPeeringList that keeps the pair in every stack.
IsAnyScope(requesterVpc) == TRUE

\* The test of setPeeringList: the requester VPC is in this account and region.
IsRequesterScope(requesterVpc) ==
    /\ stack.account = GetAccountId(requesterVpc.account)
    /\ stack.region = requesterVpc.region

SetPeeringListItem(t, peering) ==
    LET requesterVpc == FindVpc(peering.vpcs[1])
        accepterVpc == FindVpc(peering.vpcs[2])
    IN  IF requesterVpc = NoVpc THEN Throw(t, "TypeError", <<>>)
        ELSE IF IsRequesterScope(requesterVpc)
        THEN [t EXCEPT !.peeringList =
                 Append(@, [name |-> peering.name, requester |-> requesterVpc,
                            accepter |-> accepterVpc])]
        ELSE t

SetPeeringList(t) == ForEach(SetPeeringListItem, [t EXCEPT !.peeringList = <<>>], cfg.vpcPeering)

\* The (route table, route entry) pairs of a VPC, in configuration order.
RouteEntries(vpcItem) ==
    LET perTable(rt) == [i \in 1..Len(rt.routes) |-> [routeTable |-> rt, entry |-> rt.routes[i]]]
        f[i \in 0..Len(vpcItem.routeTables)] ==
            IF i = 0 THEN <<>> ELSE f[i - 1] \o perTable(vpcItem.routeTables[i])
    IN  f[Len(vpcItem.routeTables)]

\* routeTableEntry.type === 'vpcPeering' && routeTableEntry.target === peering.name
IsPeeringRoute(entry, peeringName) ==
    /\ entry.type # Undefined
    /\ entry.type = "vpcPeering"
    /\ entry.target = peeringName

\* The cross-account test of createCrossAcctRouteProvider and of
\* createAccepterVpcPeeringRoutes, on account names.
DiffersByName(requesterVpc, accepterVpc) ==
    \/ accepterVpc.account # requesterVpc.account
    \/ accepterVpc.region # requesterVpc.region

\* A variant of crossAccountCondition that compares the accounts alone.
AccountCondition(peering) ==
    GetAccountId(peering.accepter.account) # GetAccountId(peering.requester.account)

\* crossAccountCondition of setCrossAcctPrefixLists, setCrossAcctRouteTables
\* and createVpcPeeringConnections, on account ids.
CrossAccountCondition(peering) ==
    \/ GetAccountId(peering.accepter.account) # GetAccountId(peering.requester.account)
    \/ peering.accepter.region # peering.requester.region

\* A variant of the createFramework test that compares the accounts alone.
CreateFrameworkForAccounts(t) ==
    \E i \in 1..Len(t.peeringList) :
        LET peering == t.peeringList[i]
            entries == RouteEntries(peering.accepter)
        IN  \E j \in 1..Len(entries) :
                /\ IsPeeringRoute(entries[j].entry, peering.name)
                /\ peering.accepter.account # peering.requester.account

\* createFramework of createCrossAcctRouteProvider: some accepter VPC of the
\* peering list in another account or region has a route to its peering.
CreateFramework(t) ==
    \E i \in 1..Len(t.peeringList) :
        LET peering == t.peeringList[i]
            entries == RouteEntries(peering.accepter)
        IN  \E j \in 1..Len(entries) :
                /\ IsPeeringRoute(entries[j].entry, peering.name)
                /\ DiffersByName(peering.requester, peering.accepter)

CreateCrossAcctRouteProvider(t) ==
    IF \E i \in 1..Len(t.peeringList) : t.peeringList[i].accepter = NoVpc
    THEN Throw(t, "TypeError", <<>>)
    ELSE IF CreateFramework(t)
    THEN [Emit(t, Construct("CrossAccountRouteFramework", "stack", "CrossAccountRouteFramework",
                            Undefined, Undefined, NoId, NoId, stack.account, stack.region))
            EXCEPT !.crossAcctRouteProvider = TRUE]
    ELSE [t EXCEPT !.crossAcctRouteProvider = FALSE]

\* pascalCase(name) of a configuration name whose words start with a capital:
\* the separators between the words are dropped.
PascalCase(name) ==
    CASE name = "Spoke-Rt" -> "SpokeRt"
      [] OTHER -> name

\* pascalCase(`SsmParamLookup${name}`), the construct id of a lookup.
LookupConstructId(name) == "SsmParamLookup" \o PascalCase(name)

\* The configuration name the construct id of a lookup is made of: the route
\* table, the peering, or the prefix list, load balancer or gateway.
LookupIdName(e) == IF e.src \in {"routeTable", "vpc"} THEN e.sub ELSE e.item

\* The stack class whose constructor creates the lookups of kind `src`.
LookupStack(src) == IF src = "gwlbEndpointService" THEN "gwlb" ELSE "associations"

\* The stack has a child construct with the id of lookup `c`.
HasConstructId(t, c) ==
    \E i \in 1..Len(t.emitted) :
        /\ t.emitted[i].type = "SsmParameterLookup"
        /\ t.emitted[i].scope = stack
        /\ LookupStack(t.emitted[i].src) = LookupStack(c.src)
        /\ LookupConstructId(LookupIdName(t.emitted[i])) = LookupConstructId(LookupIdName(c))

\* new SsmParameterLookup(this, id, props): a construct id that a child of
\* the stack already has is an error of the construct tree.
NewSsmParameterLookup(t, c) ==
    IF HasConstructId(t, c)
    THEN Throw(t, "DuplicateConstructId", <<LookupConstructId(LookupIdName(c))>>)
    ELSE Emit(t, c)

PrefixListParameter(name) == "/accelerator/network/prefixList/" \o name \o "/id"

SetCrossAcctPrefixListsEntry(t, peering, re) ==
    LET mapKey == peering.accepter.account \o "_" \o peering.accepter.region \o "_"
                    \o re.entry.destinationPrefixList
        accepterAccountId == GetAccountId(peering.accepter.account)
    IN  IF /\ IsPeeringRoute(re.entry, peering.name)
           /\ CrossAccountCondition(peering)
           /\ re.entry.destinationPrefixList # Undefined
           /\ ~MapHas(t.tmp, mapKey)
        THEN LET name == PrefixListParameter(re.entry.destinationPrefixList)
                 prefixListId == LookupValue(name, accepterAccountId, peering.accepter.region)
                 made == NewSsmParameterLookup(t, Construct("SsmParameterLookup", "prefixList",
                                                            re.entry.destinationPrefixList, Undefined,
                                                            mapKey, prefixListId, NoId,
                                                            accepterAccountId, peering.accepter.region))
             IN  IF made.err # NoErr THEN made
                 ELSE [made EXCEPT !.tmp = MapSet(@, mapKey, prefixListId)]
        ELSE t

SetCrossAcctPrefixLists(t) ==
    ForEach(LAMBDA u, peering :
                ForEach(LAMBDA w, re : SetCrossAcctPrefixListsEntry(w, peering, re),
                        u, RouteEntries(peering.accepter)),
            [t EXCEPT !.tmp = EmptyMap], t.peeringList)

\* forEach((value, key) => map.set(key, value))
Merge(into, from) ==
    [k \in (DOMAIN into) \cup (DOMAIN from) |-> IF k \in DOMAIN from THEN from[k] ELSE into[k]]

SetPrefixListMapItem(t, prefixListItem) ==
    LET accountIds == {GetAccountId(prefixListItem.accounts[i]) : i \in 1..Len(prefixListItem.accounts)}
    IN  IF stack.account \in accountIds /\ Includes(prefixListItem.regions, stack.region)
        THEN [t EXCEPT !.prefixListMap =
                 MapSet(@, prefixListItem.name, SsmValue(PrefixListParameter(prefixListItem.name)))]
        ELSE t

SetPrefixListMap(t) ==
    LET local == ForEach(SetPrefixListMapItem, [t EXCEPT !.prefixListMap = EmptyMap], cfg.prefixLists)
        cross == SetCrossAcctPrefixLists(local)
    IN  [cross EXCEPT !.prefixListMap = Merge(@, cross.tmp), !.tmp = EmptyMap]

RouteTableParameter(vpcName, routeTableName) ==
    "/accelerator/network/vpc/" \o vpcName \o "/routeTable/" \o routeTableName \o "/id"

SetCrossAcctRouteTablesEntry(t, peering, re) ==
    LET mapKey == peering.accepter.name \o "_" \o re.routeTable.name
        accepterAccountId == GetAccountId(peering.accepter.account)
    IN  IF /\ IsPeeringRoute(re.entry, peering.name)
           /\ CrossAccountCondition(peering)
           /\ ~MapHas(t.tmp, mapKey)
        THEN LET name == RouteTableParameter(peering.accepter.name, re.routeTable.name)
                 routeTableId == LookupValue(name, accepterAccountId, peering.accepter.region)
                 made == NewSsmParameterLookup(t, Construct("SsmParameterLookup", "routeTable",
                                                            peering.accepter.name, re.routeTable.name,
                                                            mapKey, routeTableId, NoId,
                                                            accepterAccountId, peering.accepter.region))
             IN  IF made.err # NoErr THEN made
                 ELSE [made EXCEPT !.tmp = MapSet(@, mapKey, routeTableId)]
        ELSE t

SetCrossAcctRouteTables(t) ==
    ForEach(LAMBDA u, peering :
                ForEach(LAMBDA w, re : SetCrossAcctRouteTablesEntry(w, peering, re),
                        u, RouteEntries(peering.accepter)),
            [t EXCEPT !.tmp = EmptyMap], t.peeringList)

\* vpcAccountIds.includes(account) && vpcItem.region === region
IsVpcInScope(vpcItem) ==
    /\ stack.account \in GetVpcAccountIds(vpcItem)
    /\ vpcItem.region = stack.region

SetRouteTableMapItem(t, vpcItem) ==
    IF IsVpcInScope(vpcItem)
    THEN ForEach(LAMBDA u, routeTableItem :
                     [u EXCEPT !.routeTableMap =
                         MapSet(@, vpcItem.name \o "_" \o routeTableItem.name,
                                SsmValue(RouteTableParameter(vpcItem.name, routeTableItem.name)))],
                 t, vpcItem.routeTables)
    ELSE t

SetRouteTableMap(t) ==
    LET local == ForEach(SetRouteTableMapItem, [t EXCEPT !.routeTableMap = EmptyMap], AllVpcItems)
        cross == SetCrossAcctRouteTables(local)
    IN  [cross EXCEPT !.routeTableMap = Merge(@, cross.tmp), !.tmp = EmptyMap]

\* ------------------------------------------------------------------ transit gateway maps
\* The test of setTransitGatewayMap, setTransitGatewayRouteTableMap and
\* createTransitGatewayStaticRoutes: the transit gateway is of this scope.
IsTgwInScope(tgwItem) ==
    /\ GetAccountId(tgwItem.account) = stack.account
    /\ tgwItem.region = stack.region

SetTransitGatewayMap(t, tgwItem) ==
    IF IsTgwInScope(tgwItem)
    THEN [t EXCEPT !.transitGateways =
             MapSet(@, tgwItem.name,
                    SsmValue("/accelerator/network/transitGateways/" \o tgwItem.name \o "/id"))]
    ELSE t

SetTransitGatewayRouteTableMap(t, tgwItem) ==
    IF IsTgwInScope(tgwItem)
    THEN ForEach(LAMBDA u, routeTableItem :
                     [u EXCEPT !.transitGatewayRouteTables =
                         MapSet(@, tgwItem.name \o "_" \o routeTableItem.name,
                                SsmValue("/accelerator/network/transitGateways/" \o tgwItem.name
                                         \o "/routeTables/" \o routeTableItem.name \o "/id"))],
                 t, tgwItem.routeTables)
    ELSE t

\* this.transitGatewayAttachments.set(key, value) for the attachment `name`
\* that the configuration item `item` of kind `kind` (vpc, vpn, dx), owned by
\* `owner`, declares on transit gateway `tgw`; the write is kept in `emitted`.
SetAttachment(t, key, value, kind, item, name, owner, tgw) ==
    [t EXCEPT !.transitGatewayAttachments = MapSet(@, key, value),
              !.emitted = Append(@, [type |-> "transitGatewayAttachments.set", scope |-> stack,
                                     src |-> kind, item |-> item, sub |-> name, key |-> key,
                                     att |-> value, rt |-> NoId, owner |-> owner,
                                     region |-> stack.region, tgw |-> tgw])]

\* getTransitGatewayAttachmentAccounts(vpcItem)[0]
AttachmentAccountNames(vpcItem) == IF vpcItem.isTemplate THEN vpcItem.accounts ELSE <<vpcItem.account>>

\* getTransitGatewayAttachmentAccounts(vpcItem)[1]
ExcludedAccountIds(vpcItem) ==
    IF vpcItem.isTemplate THEN {GetAccountId(a) : a \in vpcItem.excludedAccounts} ELSE {}

\* The key of a VPC attachment in transitGatewayAttachments.
VpcAttachmentKey(owningAccount, vpcName) == owningAccount \o "_" \o vpcName

\* The key of a VPN or Direct Connect gateway attachment in transitGatewayAttachments.
GatewayAttachmentKey(gatewayName, tgwName) == gatewayName \o "_" \o tgwName

\* The key of a transit gateway route table in transitGatewayRouteTables.
RouteTableKey(tgwName, routeTableName) == tgwName \o "_" \o routeTableName

SetVpcAttachmentOwner(t, vpcItem, tgwAttachmentItem, accountId, transitGatewayId, owningAccount) ==
    LET owningAccountId == GetAccountId(owningAccount)
        attachmentKey == VpcAttachmentKey(owningAccount, vpcItem.name)
    IN  IF owningAccountId \in ExcludedAccountIds(vpcItem) THEN t
        ELSE IF accountId = owningAccountId
        THEN SetAttachment(t, attachmentKey,
                           SsmValue("/accelerator/network/vpc/" \o vpcItem.name
                                    \o "/transitGatewayAttachment/" \o tgwAttachmentItem.name \o "/id"),
                           "vpc", vpcItem.name, tgwAttachmentItem.name, owningAccountId,
                           tgwAttachmentItem.transitGateway.name)
        ELSE LET id == AttachmentLookupValue(tgwAttachmentItem.name, owningAccountId,
                                             transitGatewayId, "vpc")
             IN  SetAttachment(
                     Emit(t, Construct("TransitGatewayAttachmentLookup", "vpc", vpcItem.name,
                                       tgwAttachmentItem.name, attachmentKey, id, NoId,
                                       owningAccountId, stack.region)),
                     attachmentKey, id, "vpc", vpcItem.name, tgwAttachmentItem.name,
                     owningAccountId,
                     tgwAttachmentItem.transitGateway.name)

\* A variant of the test below that never finds the transit gateway missing.
TransitGatewayNeverMissing(transitGatewayId) == FALSE

\* if (!transitGatewayId) of setTransitGatewayVpcAttachmentsMap
TransitGatewayNotSet(transitGatewayId) == transitGatewayId = NoId

SetVpcAttachment(t, vpcItem, tgwAttachmentItem) ==
    LET accountId == GetAccountId(tgwAttachmentItem.transitGateway.account)
        transitGatewayId == MapGet(t.transitGateways, tgwAttachmentItem.transitGateway.name)
    IN  IF accountId # stack.account THEN t
        ELSE IF TransitGatewayNotSet(transitGatewayId)
        THEN Throw(t, "TransitGatewayNotFound", <<tgwAttachmentItem.transitGateway.name>>)
        ELSE ForEach(LAMBDA u, owningAccount :
                         SetVpcAttachmentOwner(u, vpcItem, tgwAttachmentItem, accountId,
                                               transitGatewayId, owningAccount),
                     t, AttachmentAccountNames(vpcItem))

SetTransitGatewayVpcAttachmentsMap(t, vpcItem) ==
    IF vpcItem.region = stack.region
    THEN ForEach(LAMBDA u, a : SetVpcAttachment(u, vpcItem, a), t, vpcItem.transitGatewayAttachments)
    ELSE t

\* A variant of the test below that never finds the identifier missing.
AttachmentNeverMissing(transitGatewayAttachmentId) == FALSE

\* if (!transitGatewayAttachmentId) of the association and propagation methods
AttachmentNotResolved(transitGatewayAttachmentId) == transitGatewayAttachmentId = NoId

\* The route table associations (type = "TransitGatewayRouteTableAssociation")
\* or propagations of one attachment, one per route table name of `names`.
CreateRouteTableLinks(t, type, src, item, sub, attachmentKey, transitGatewayAttachmentId, tgwName, names, owner) ==
    ForEach(LAMBDA u, routeTableItem :
                LET transitGatewayRouteTableId ==
                        MapGet(u.transitGatewayRouteTables, RouteTableKey(tgwName, routeTableItem))
                IN  IF transitGatewayRouteTableId = NoId
                    THEN Throw(u, "TransitGatewayRouteTableNotFound",
                               <<RouteTableKey(tgwName, routeTableItem)>>)
                    ELSE Emit(u, Construct(type, src, item, sub, attachmentKey,
                                           transitGatewayAttachmentId,
                                           transitGatewayRouteTableId, owner, stack.region)),
            t, names)

\* The body shared by createVpcTransitGatewayAssociations and
\* createVpcTransitGatewayPropagations for one owning account.
CreateVpcLinksOwner(t, type, vpcItem, tgwAttachmentItem, owningAccount, names) ==
    LET owningAccountId == GetAccountId(owningAccount)
        attachmentKey == VpcAttachmentKey(owningAccount, vpcItem.name)
        transitGatewayAttachmentId == MapGet(t.transitGatewayAttachments, attachmentKey)
    IN  IF owningAccountId \in ExcludedAccountIds(vpcItem) THEN t
        ELSE IF AttachmentNotResolved(transitGatewayAttachmentId)
        THEN Throw(t, "TransitGatewayAttachmentNotFound", <<attachmentKey>>)
        ELSE CreateRouteTableLinks(t, type, "vpc", vpcItem.name, tgwAttachmentItem.name,
                                   attachmentKey, transitGatewayAttachmentId,
                                   tgwAttachmentItem.transitGateway.name, names, owningAccountId)

CreateVpcLinks(t, type, vpcItem, tgwAttachmentItem, names) ==
    IF GetAccountId(tgwAttachmentItem.transitGateway.account) = stack.account
    THEN ForEach(LAMBDA u, owningAccount :
                     CreateVpcLinksOwner(u, type, vpcItem, tgwAttachmentItem, owningAccount, names),
                 t, AttachmentAccountNames(vpcItem))
    ELSE t

CreateVpcTransitGatewayAssociations(t, vpcItem) ==
    IF vpcItem.region = stack.region
    THEN ForEach(LAMBDA u, a :
                     CreateVpcLinks(u, "TransitGatewayRouteTableAssociation", vpcItem, a,
                                    a.routeTableAssociations),
                 t, vpcItem.transitGatewayAttachments)
    ELSE t

CreateVpcTransitGatewayPropagations(t, vpcItem) ==
    IF vpcItem.region = stack.region
    THEN ForEach(LAMBDA u, a :
                     CreateVpcLinks(u, "TransitGatewayRouteTablePropagation", vpcItem, a,
                                    a.routeTablePropagations),
                 t, vpcItem.transitGatewayAttachments)
    ELSE t

\* networkConfig.transitGateways.find(tgwItem => predicate): the names of the
\* first match, or of no transit gateway.
NoTgw == [name |-> Undefined, account |-> Undefined, region |-> Undefined, routeTables |-> <<>>]

FindTgw(Test(_)) ==
    LET hits == SelectSeq(cfg.transitGateways, Test)
    IN  IF Len(hits) = 0 THEN NoTgw ELSE hits[1]

\* The guard of the three VPN methods: the customer gateway is of this scope.
IsCgwInScope(cgwItem) ==
    /\ GetAccountId(cgwItem.account) = stack.account
    /\ cgwItem.region = stack.region

SetTransitGatewayVpnAttachmentsMap(t, cgwItem, vpnItem) ==
    IF IsCgwInScope(cgwItem) /\ vpnItem.transitGateway # Undefined
    THEN LET tgw == FindTgw(LAMBDA tgwItem : tgwItem.name = vpnItem.transitGateway)
             accountId == GetAccountId(cgwItem.account)
             transitGatewayId == MapGet(t.transitGateways, tgw.name)
         IN  IF tgw = NoTgw THEN Throw(t, "TypeError", <<>>)
             ELSE IF transitGatewayId = NoId
             THEN Throw(t, "TransitGatewayNotFound", <<tgw.name>>)
             ELSE LET key == GatewayAttachmentKey(vpnItem.name, tgw.name)
                      vpnAttachmentId ==
                          AttachmentLookupValue(vpnItem.name, accountId, transitGatewayId, "vpn")
                  IN  SetAttachment(
                          Emit(t, Construct("TransitGatewayAttachmentLookup", "vpn", vpnItem.name,
                                            Undefined, key, vpnAttachmentId, NoId, accountId,
                                            stack.region)),
                          key, vpnAttachmentId, "vpn", vpnItem.name, vpnItem.name, accountId,
                          tgw.name)
    ELSE t

\* The body shared by createVpnTransitGatewayAssociations and
\* createVpnTransitGatewayPropagations; every generated VPN connection
\* carries both lists of route table names.
CreateVpnLinks(t, type, cgwItem, vpnItem, names) ==
    IF IsCgwInScope(cgwItem)
    THEN LET attachmentKey == GatewayAttachmentKey(vpnItem.name, vpnItem.transitGateway)
             transitGatewayAttachmentId == MapGet(t.transitGatewayAttachments, attachmentKey)
         IN  IF AttachmentNotResolved(transitGatewayAttachmentId)
             THEN Throw(t, "TransitGatewayAttachmentNotFound", <<attachmentKey>>)
             ELSE CreateRouteTableLinks(t, type, "vpn", vpnItem.name, Undefined, attachmentKey,
                                        transitGatewayAttachmentId, vpnItem.transitGateway, names,
                                        GetAccountId(cgwItem.account))
    ELSE t

CreateVpnTransitGatewayAssociations(t, cgwItem, vpnItem) ==
    CreateVpnLinks(t, "TransitGatewayRouteTableAssociation", cgwItem, vpnItem,
                   vpnItem.routeTableAssociations)

CreateVpnTransitGatewayPropagations(t, cgwItem, vpnItem) ==
    CreateVpnLinks(t, "TransitGatewayRouteTablePropagation", cgwItem, vpnItem,
                   vpnItem.routeTablePropagations)

\* s1; s2; s3 where a throw in one skips the rest.
Then(t, Op(_)) == IF t.err # NoErr THEN t ELSE Op(t)

\* A variant of the loop body below that handles one attachment of the VPC
\* after the other: its identifier, its associations, its propagations.
VpcItemResourcesByAttachment(t, vpcItem) ==
    IF vpcItem.region = stack.region
    THEN ForEach(LAMBDA u, a :
                     Then(Then(SetVpcAttachment(u, vpcItem, a),
                               LAMBDA w : CreateVpcLinks(w, "TransitGatewayRouteTableAssociation",
                                                         vpcItem, a, a.routeTableAssociations)),
                          LAMBDA w : CreateVpcLinks(w, "TransitGatewayRouteTablePropagation",
                                                    vpcItem, a, a.routeTablePropagations)),
                 t, vpcItem.transitGatewayAttachments)
    ELSE t

\* A variant of the loop body below that creates the propagations of the VPC
\* before its associations.
VpcItemResourcesPropagationsFirst(t, vpcItem) ==
    Then(Then(SetTransitGatewayVpcAttachmentsMap(t, vpcItem),
              LAMBDA u : CreateVpcTransitGatewayPropagations(u, vpcItem)),
         LAMBDA u : CreateVpcTransitGatewayAssociations(u, vpcItem))

\* The body of the loop over VPC items of createTransitGatewayResources.
VpcItemResources(t, vpcItem) ==
    Then(Then(SetTransitGatewayVpcAttachmentsMap(t, vpcItem),
              LAMBDA u : CreateVpcTransitGatewayAssociations(u, vpcItem)),
         LAMBDA u : CreateVpcTransitGatewayPropagations(u, vpcItem))

\* The body of the loop over VPN connections of createTransitGatewayResources.
VpnItemResources(t, cgwItem, vpnItem) ==
    Then(Then(SetTransitGatewayVpnAttachmentsMap(t, cgwItem, vpnItem),
              LAMBDA u : CreateVpnTransitGatewayAssociations(u, cgwItem, vpnItem)),
         LAMBDA u : CreateVpnTransitGatewayPropagations(u, cgwItem, vpnItem))

CreateTransitGatewayResources(t) ==
    LET maps == ForEach(LAMBDA u, tgwItem :
                            SetTransitGatewayRouteTableMap(SetTransitGatewayMap(u, tgwItem), tgwItem),
                        t, cfg.transitGateways)
        vpcs == Then(maps, LAMBDA u : ForEach(VpcItemResources, u, AllVpcItems))
    IN  Then(vpcs, LAMBDA u :
                 ForEach(LAMBDA w, cgwItem :
                             ForEach(LAMBDA x, vpnItem : VpnItemResources(x, cgwItem, vpnItem),
                                     w, cgwItem.vpnConnections),
                         u, cfg.customerGateways))

\* ------------------------------------------------------------------ Direct Connect
\* The test of the Direct Connect methods: the transit gateway is of this scope.
IsDxTgwInScope(tgw, tgwAccountId) ==
    /\ tgwAccountId = stack.account
    /\ tgw.region = stack.region

DxGatewayParameter(name) == "/accelerator/network/directConnectGateways/" \o name \o "/id"

\* A variant of the test below that takes every pair of accounts to match.
DxAccountsNeverDiffer(dxgwItem, tgw) == FALSE

\* dxgwItem.account !== tgw.account
DxAccountsDiffer(dxgwItem, tgw) == dxgwItem.account # tgw.account

SetDxGatewayMap(t, dxgwItem, tgw, tgwAccountId) ==
    IF DxAccountsDiffer(dxgwItem, tgw) /\ IsDxTgwInScope(tgw, tgwAccountId)
    THEN LET dxgwId == LookupValue(DxGatewayParameter(dxgwItem.name),
                                   GetAccountId(dxgwItem.account), HomeRegion)
         IN  [Emit(t, Construct("SsmParameterLookup", "dxGateway", dxgwItem.name, Undefined,
                                dxgwItem.name, dxgwId, NoId, GetAccountId(dxgwItem.account),
                                HomeRegion))
                EXCEPT !.dxGatewayMap = MapSet(@, dxgwItem.name, dxgwId)]
    ELSE IF ~DxAccountsDiffer(dxgwItem, tgw) /\ IsDxTgwInScope(tgw, tgwAccountId)
    THEN IF tgw.region = HomeRegion
         THEN [t EXCEPT !.dxGatewayMap =
                  MapSet(@, dxgwItem.name, SsmValue(DxGatewayParameter(dxgwItem.name)))]
         ELSE LET dxgwId == LookupValue(DxGatewayParameter(dxgwItem.name), stack.account, HomeRegion)
              IN  [Emit(t, Construct("SsmParameterLookup", "dxGateway", dxgwItem.name, Undefined,
                                     dxgwItem.name, dxgwId, NoId, stack.account, HomeRegion))
                     EXCEPT !.dxGatewayMap = MapSet(@, dxgwItem.name, dxgwId)]
    ELSE t

\* association.transitGatewayAttachmentId of a DirectConnectGatewayAssociation
\* with logical id `associationLogicalId`: an attribute of the association
\* when it exposes one, undefined otherwise.
DxAssociationAttachmentId(associationLogicalId) ==
    IF dxPublishes THEN AttributeValue(associationLogicalId, "TransitGatewayAttachmentId") ELSE NoId

CreateDxGatewayTgwAssociations(t, dxgwItem, tgw, associationItem, tgwAccountId) ==
    IF IsDxTgwInScope(tgw, tgwAccountId)
    THEN LET proposal == DxAccountsDiffer(dxgwItem, tgw)
             directConnectGatewayOwnerAccount ==
                 IF proposal THEN GetAccountId(dxgwItem.account) ELSE Undefined
             directConnectGatewayId == MapGet(t.dxGatewayMap, dxgwItem.name)
             gatewayId == MapGet(t.transitGateways, tgw.name)
             associationLogicalId ==
                 dxgwItem.name \o tgw.name
                   \o (IF proposal THEN "DxGatewayAssociationProposal" ELSE "DxGatewayAssociation")
         IN  IF directConnectGatewayId = NoId
             THEN Throw(t, "DxGatewayIdNotFound", <<dxgwItem.name>>)
             ELSE IF gatewayId = NoId
             THEN Throw(t, "DxTransitGatewayIdNotFound", <<tgw.name>>)
             ELSE LET id == DxAssociationAttachmentId(associationLogicalId)
                      key == GatewayAttachmentKey(dxgwItem.name, tgw.name)
                      created ==
                          Emit(t, Construct(IF proposal
                                              THEN "DirectConnectGatewayAssociationProposal"
                                              ELSE "DirectConnectGatewayAssociation",
                                            "dx", dxgwItem.name, tgw.name, key, id, NoId,
                                            GetAccountId(dxgwItem.account), stack.region)
                                    @@ [directConnectGatewayId |-> directConnectGatewayId,
                                        directConnectGatewayOwnerAccount |->
                                            directConnectGatewayOwnerAccount,
                                        gatewayId |-> gatewayId])
                  IN  IF id # NoId
                      THEN SetAttachment(created, key, id, "dx", dxgwItem.name, dxgwItem.name,
                                         GetAccountId(dxgwItem.account), tgw.name)
                      ELSE created
    ELSE t

\* The body shared by createDxTgwRouteTableAssociations and
\* createDxTgwRouteTablePropagations.
CreateDxLink(t, type, dxgwItem, tgw, tgwRouteTableName, tgwAccountId) ==
    IF IsDxTgwInScope(tgw, tgwAccountId)
    THEN LET key == GatewayAttachmentKey(dxgwItem.name, tgw.name)
             transitGatewayAttachmentId == MapGet(t.transitGatewayAttachments, key)
             transitGatewayRouteTableId ==
                 MapGet(t.transitGatewayRouteTables, RouteTableKey(tgw.name, tgwRouteTableName))
         IN  IF AttachmentNotResolved(transitGatewayAttachmentId)
             THEN Throw(t, "DxAttachmentNotFound", <<key>>)
             ELSE IF transitGatewayRouteTableId = NoId
             THEN Throw(t, "DxRouteTableNotFound", <<RouteTableKey(tgw.name, tgwRouteTableName)>>)
             ELSE Emit(t, Construct(type, "dx", dxgwItem.name, tgw.name, key,
                                    transitGatewayAttachmentId, transitGatewayRouteTableId,
                                    GetAccountId(dxgwItem.account), stack.region))
    ELSE t

CreateDxTgwRouteTableAssociations(t, dxgwItem, tgw, tgwRouteTableName, tgwAccountId) ==
    CreateDxLink(t, "TransitGatewayRouteTableAssociation", dxgwItem, tgw, tgwRouteTableName,
                 tgwAccountId)

CreateDxTgwRouteTablePropagations(t, dxgwItem, tgw, tgwRouteTableName, tgwAccountId) ==
    CreateDxLink(t, "TransitGatewayRouteTablePropagation", dxgwItem, tgw, tgwRouteTableName,
                 tgwAccountId)

\* The body of the loop over transit gateway associations of
\* createDirectConnectResources.
DxAssociationResources(t, dxgwItem, associationItem) ==
    LET tgw == FindTgw(LAMBDA item : item.name = associationItem.name
                                     /\ item.account = associationItem.account)
        tgwAccountId == GetAccountId(tgw.account)
    IN  IF tgw = NoTgw THEN Throw(t, "UnableToLocateTransitGateway", <<associationItem.name>>)
        ELSE LET associated ==
                     Then(SetDxGatewayMap(t, dxgwItem, tgw, tgwAccountId),
                          LAMBDA u : CreateDxGatewayTgwAssociations(u, dxgwItem, tgw,
                                                                    associationItem, tgwAccountId))
                 linked ==
                     Then(associated, LAMBDA u :
                              ForEach(LAMBDA w, name :
                                          CreateDxTgwRouteTableAssociations(w, dxgwItem, tgw, name,
                                                                            tgwAccountId),
                                      u, associationItem.routeTableAssociations))
             IN  Then(linked, LAMBDA u :
                          ForEach(LAMBDA w, name :
                                      CreateDxTgwRouteTablePropagations(w, dxgwItem, tgw, name,
                                                                        tgwAccountId),
                                  u, associationItem.routeTablePropagations))

CreateDirectConnectResources(t) ==
    ForEach(LAMBDA u, dxgwItem :
                ForEach(LAMBDA w, associationItem : DxAssociationResources(w, dxgwItem, associationItem),
                        u, dxgwItem.transitGatewayAssociations),
            t, cfg.directConnectGateways)

\* ------------------------------------------------------------------ static routes
\* networkConfig.getTgwPeeringRequesterAccepterConfig(name, side): the
\* requester or accepter of the transit gateway peering `name`, if configured.
NoPeeringSide == [transitGatewayName |-> Undefined, account |-> Undefined, region |-> Undefined]

GetTgwPeeringRequesterAccepterConfig(name, side) ==
    LET hits == SelectSeq(cfg.transitGatewayPeering, LAMBDA p : p.name = name)
    IN  IF Len(hits) = 0 THEN NoPeeringSide
        ELSE IF side = "requester" THEN hits[1].requester ELSE hits[1].accepter

\* getTgwPeeringAttachmentId: the identifier is left in `ret`.
GetTgwPeeringAttachmentId(t, transitGatewayPeeringName, tgwItem) ==
    LET requesterConfig == GetTgwPeeringRequesterAccepterConfig(transitGatewayPeeringName, "requester")
        accepterConfig == GetTgwPeeringRequesterAccepterConfig(transitGatewayPeeringName, "accepter")
    IN  IF requesterConfig = NoPeeringSide \/ accepterConfig = NoPeeringSide
        THEN Throw(t, "TransitGatewayPeeringNotFound", <<transitGatewayPeeringName>>)
        ELSE IF GetAccountId(requesterConfig.account) = stack.account
        THEN [t EXCEPT !.ret = SsmValue("/accelerator/network/transitGateways/" \o tgwItem.name
                                        \o "/peering/" \o transitGatewayPeeringName \o "/id")]
        ELSE IF GetAccountId(accepterConfig.account) = stack.account
        THEN LET transitGatewayId == MapGet(t.transitGateways, accepterConfig.transitGatewayName)
                 id == AttachmentLookupValue(transitGatewayPeeringName, stack.account,
                                             transitGatewayId, "peering")
             IN  IF transitGatewayId = NoId
                 THEN Throw(t, "TransitGatewayNotFound", <<accepterConfig.transitGatewayName>>)
                 ELSE [Emit(t, Construct("TransitGatewayAttachmentLookup", "peering",
                                         transitGatewayPeeringName, Undefined,
                                         transitGatewayPeeringName, id, NoId, stack.account,
                                         stack.region))
                         EXCEPT !.ret = id]
        ELSE Throw(t, "TransitGatewayPeeringAttachmentNotFound", <<transitGatewayPeeringName>>)

\* The io-ts shape tests of a route entry's attachment.
IsVpcEntry(attachment) == attachment.defined /\ {"account", "vpcName"} \subseteq attachment.props

IsDxGatewayEntry(attachment) == attachment.defined /\ "directConnectGatewayName" \in attachment.props

IsVpnEntry(attachment) == attachment.defined /\ "vpnConnectionName" \in attachment.props

IsTgwPeeringEntry(attachment) == attachment.defined /\ "transitGatewayPeeringName" \in attachment.props

\* The attachment kinds the shape tests of a route entry match, in the order
\* of the tests.
MatchedKinds(attachment) ==
    (IF IsVpcEntry(attachment) THEN <<"vpc">> ELSE <<>>)
      \o (IF IsDxGatewayEntry(attachment) THEN <<"dx">> ELSE <<>>)
      \o (IF IsVpnEntry(attachment) THEN <<"vpn">> ELSE <<>>)
      \o (IF IsTgwPeeringEntry(attachment) THEN <<"peering">> ELSE <<>>)

\* The key of transitGatewayAttachments read for an attachment of kind `kind`.
RouteAttachmentKey(kind, attachment, tgwItem) ==
    CASE kind = "vpc" -> VpcAttachmentKey(attachment.account, attachment.vpcName)
      [] kind = "dx" -> GatewayAttachmentKey(attachment.directConnectGatewayName, tgwItem.name)
      [] kind = "vpn" -> GatewayAttachmentKey(attachment.vpnConnectionName, tgwItem.name)
      [] OTHER -> attachment.transitGatewayPeeringName

\* One of the four `if` blocks of createTransitGatewayStaticRouteItem that set
\* transitGatewayAttachmentId (kept in `ret`) and the key read (in `key`).
ResolveRouteAttachment(t, kind, attachment, tgwItem) ==
    LET key == RouteAttachmentKey(kind, attachment, tgwItem)
        keyed == [t EXCEPT !.key = key, !.ret = NoId]
    IN  IF kind = "peering"
        THEN GetTgwPeeringAttachmentId(keyed, attachment.transitGatewayPeeringName, tgwItem)
        ELSE [keyed EXCEPT !.ret = MapGet(t.transitGatewayAttachments, key)]

\* if (routeItem.attachment && !transitGatewayAttachmentId)
RouteAttachmentMissing(routeItem, transitGatewayAttachmentId) ==
    routeItem.attachment.defined /\ transitGatewayAttachmentId = NoId

\* routeId and plRouteId stay '' when the entry is no blackhole and no shape
\* test matched: a construct of a stack cannot be created with an empty id.
RouteIdIsEmpty(kinds, routeItem) == Len(kinds) = 0 /\ ~routeItem.blackhole

\* A static route (type = "TransitGatewayStaticRoute", destination = the CIDR
\* block) or a prefix list reference of one route entry.
CreateRouteOrReference(t, type, destination, tgwItem, routeTableItem, routeItem, transitGatewayRouteTableId) ==
    LET kinds == MatchedKinds(routeItem.attachment)
        resolved == ForEach(LAMBDA u, kind : ResolveRouteAttachment(u, kind, routeItem.attachment, tgwItem),
                            [t EXCEPT !.ret = NoId, !.key = Undefined], kinds)
        src == IF Len(kinds) > 0 THEN kinds[Len(kinds)]
               ELSE IF routeItem.blackhole THEN "blackhole" ELSE "none"
    IN  IF resolved.err # NoErr THEN resolved
        ELSE IF RouteAttachmentMissing(routeItem, resolved.ret)
        THEN Throw(resolved, "UnableToLocateTransitGatewayAttachment", <<routeTableItem.name>>)
        ELSE IF RouteIdIsEmpty(kinds, routeItem)
        THEN Throw(resolved, "EmptyConstructId", <<routeTableItem.name>>)
        ELSE [Emit(resolved, Construct(type, src, routeTableItem.name, destination,
                                       resolved.key, resolved.ret, transitGatewayRouteTableId,
                                       GetAccountId(tgwItem.account), stack.region))
                EXCEPT !.ret = NoId, !.key = Undefined]

CreatePrefixListReference(t, tgwItem, routeTableItem, routeItem, transitGatewayRouteTableId) ==
    IF routeItem.destinationPrefixList # Undefined
    THEN IF MapGet(t.prefixListMap, routeItem.destinationPrefixList) = NoId
         THEN Throw(t, "PrefixListNotFound", <<routeItem.destinationPrefixList>>)
         ELSE CreateRouteOrReference(t, "TransitGatewayPrefixListReference",
                                     routeItem.destinationPrefixList, tgwItem, routeTableItem,
                                     routeItem, transitGatewayRouteTableId)
    ELSE t

CreateTransitGatewayStaticRouteItem(t, tgwItem, routeTableItem, routeItem, transitGatewayRouteTableId) ==
    LET static ==
            IF routeItem.destinationCidrBlock # Undefined
            THEN CreateRouteOrReference(t, "TransitGatewayStaticRoute",
                                        routeItem.destinationCidrBlock, tgwItem, routeTableItem,
                                        routeItem, transitGatewayRouteTableId)
            ELSE t
    IN  Then(static, LAMBDA u : CreatePrefixListReference(u, tgwItem, routeTableItem, routeItem,
                                                          transitGatewayRouteTableId))

StaticRoutesOfTable(t, tgwItem, routeTableItem) ==
    LET routeTableKey == RouteTableKey(tgwItem.name, routeTableItem.name)
        transitGatewayRouteTableId == MapGet(t.transitGatewayRouteTables, routeTableKey)
    IN  IF transitGatewayRouteTableId = NoId
        THEN Throw(t, "TransitGatewayRouteTableNotFound", <<routeTableKey>>)
        ELSE ForEach(LAMBDA u, routeItem :
                         CreateTransitGatewayStaticRouteItem(u, tgwItem, routeTableItem, routeItem,
                                                             transitGatewayRouteTableId),
                     t, routeTableItem.routes)

CreateTransitGatewayStaticRoutes(t) ==
    ForEach(LAMBDA u, tgwItem :
                IF IsTgwInScope(tgwItem)
                THEN ForEach(LAMBDA w, routeTableItem : StaticRoutesOfTable(w, tgwItem, routeTableItem),
                             u, tgwItem.routeTables)
                ELSE u,
            t, cfg.transitGateways)

\* ------------------------------------------------------------------ VPC peering
VpcParameter(vpcName) == "/accelerator/network/vpc/" \o vpcName \o "/id"

\* The route id of a peering route: the VPC, route table and route entry.
PeeringRouteId(vpcItem, re) == vpcItem.name \o "/" \o re.routeTable.name \o "/" \o re.entry.name

CreateRequesterRoute(t, requesterVpc, peering, re) ==
    IF IsPeeringRoute(re.entry, peering.name)
    THEN LET routeTableId == MapGet(t.routeTableMap, requesterVpc.name \o "_" \o re.routeTable.name)
             destinationPrefixListId ==
                 IF re.entry.destinationPrefixList # Undefined
                 THEN MapGet(t.prefixListMap, re.entry.destinationPrefixList)
                 ELSE NoId
         IN  IF routeTableId = NoId THEN Throw(t, "RouteTableNotFound", <<re.routeTable.name>>)
             ELSE IF re.entry.destinationPrefixList # Undefined /\ destinationPrefixListId = NoId
             THEN Throw(t, "PrefixListNotFound", <<re.entry.destinationPrefixList>>)
             ELSE Emit(t, Construct("PeeringRoute", "requester", peering.name,
                                    PeeringRouteId(requesterVpc, re), re.entry.destination,
                                    destinationPrefixListId, routeTableId, stack.account,
                                    stack.region))
    ELSE t

CreateRequesterVpcPeeringRoutes(t, requesterVpc, peering) ==
    ForEach(LAMBDA u, re : CreateRequesterRoute(u, requesterVpc, peering, re),
            t, RouteEntries(requesterVpc))

\* if (!this.crossAcctRouteProvider)
ProviderMissing(t) == ~t.crossAcctRouteProvider

CreateAccepterRoute(t, accepterAccountId, accepterVpc, requesterVpc, peering, re) ==
    IF IsPeeringRoute(re.entry, peering.name)
    THEN LET routeTableId == MapGet(t.routeTableMap, accepterVpc.name \o "_" \o re.routeTable.name)
         IN  IF routeTableId = NoId THEN Throw(t, "RouteTableNotFound", <<re.routeTable.name>>)
             ELSE IF ~DiffersByName(requesterVpc, accepterVpc)
             THEN LET destinationPrefixListId ==
                          IF re.entry.destinationPrefixList # Undefined
                          THEN MapGet(t.prefixListMap, re.entry.destinationPrefixList)
                          ELSE NoId
                  IN  IF re.entry.destinationPrefixList # Undefined /\ destinationPrefixListId = NoId
                      THEN Throw(t, "PrefixListNotFound", <<re.entry.destinationPrefixList>>)
                      ELSE Emit(t, Construct("PeeringRoute", "accepter", peering.name,
                                             PeeringRouteId(accepterVpc, re), re.entry.destination,
                                             destinationPrefixListId, routeTableId, stack.account,
                                             stack.region))
             ELSE LET destinationPrefixListId ==
                          IF re.entry.destinationPrefixList # Undefined
                          THEN MapGet(t.prefixListMap,
                                      accepterVpc.account \o "_" \o accepterVpc.region \o "_"
                                        \o re.entry.destinationPrefixList)
                          ELSE NoId
                  IN  IF ProviderMissing(t)
                      THEN Throw(t, "CrossAccountRouteProviderNotCreated", <<re.entry.name>>)
                      ELSE Emit(t, Construct("CrossAcctPeeringRoute", "accepter", peering.name,
                                             PeeringRouteId(accepterVpc, re), re.entry.destination,
                                             destinationPrefixListId, routeTableId,
                                             accepterAccountId, accepterVpc.region))
    ELSE t

CreateAccepterVpcPeeringRoutes(t, accepterAccountId, accepterVpc, requesterVpc, peering) ==
    ForEach(LAMBDA u, re : CreateAccepterRoute(u, accepterAccountId, accepterVpc, requesterVpc,
                                                peering, re),
            t, RouteEntries(accepterVpc))

CreateVpcPeeringRoutes(t, accepterAccountId, requesterVpc, accepterVpc, peering) ==
    Then(CreateRequesterVpcPeeringRoutes(t, requesterVpc, peering),
         LAMBDA u : CreateAccepterVpcPeeringRoutes(u, accepterAccountId, accepterVpc, requesterVpc,
                                                   peering))

\* A variant that puts the parameter in the accepter's account for every peering.
AlwaysPutsParameter(peering) == TRUE

\* "Put cross-account SSM parameter if necessary"
NeedsCrossAcctParameter(peering) == CrossAccountCondition(peering)

\* The body of the loop over the peering list of createVpcPeeringConnections.
\* The entry pushed to this.ssmParameters is the parameter the stack creates in
\* its own account and region.
CreateVpcPeeringConnection(t, peering) ==
    LET accepterAccountId == GetAccountId(peering.accepter.account)
        cross == CrossAccountCondition(peering)
        name == VpcParameter(peering.accepter.name)
        accepterVpcId == IF cross
                         THEN LookupValue(name, accepterAccountId, peering.accepter.region)
                         ELSE SsmValue(name)
        looked == IF cross
                  THEN Emit(t, Construct("SsmParameterLookup", "vpc", peering.accepter.name,
                                         peering.name, Undefined, accepterVpcId, NoId,
                                         accepterAccountId, peering.accepter.region))
                  ELSE t
        peered == Emit(looked, Construct("VpcPeering", "peering", peering.name, Undefined,
                                         Undefined, accepterVpcId,
                                         SsmValue(VpcParameter(peering.requester.name)),
                                         accepterAccountId, peering.accepter.region))
        pushed == Emit(peered, Construct("SsmParameter", "peering", peering.name, Undefined,
                                         "/accelerator/network/vpcPeering/" \o peering.name \o "/id",
                                         AttributeValue(peering.name, "peeringId"), NoId,
                                         stack.account, stack.region))
        published == IF NeedsCrossAcctParameter(peering)
                     THEN Emit(pushed, Construct("PutSsmParameter", "peering", peering.name,
                                                 Undefined,
                                                 "/accelerator/network/vpcPeering/" \o peering.name \o "/id",
                                                 AttributeValue(peering.name, "peeringId"), NoId,
                                                 accepterAccountId, peering.accepter.region))
                     ELSE pushed
    IN  CreateVpcPeeringRoutes(published, accepterAccountId, peering.requester, peering.accepter,
                               peering)

CreateVpcPeeringConnections(t) == ForEach(CreateVpcPeeringConnection, t, t.peeringList)

\* ------------------------------------------------------------------ central network associations
\* this.getResourceShare(name, type, owningAccountId, ...).resourceShareItemArn
\* (or .resourceShareItemId): the item of that type of the resource share
\* `name` owned by `owningAccountId`.
GetResourceShare(name, type, owningAccountId) ==
    [via |-> "resourceShare", name |-> name, account |-> owningAccountId,
     region |-> stack.region, detail |-> type]

DelegatedAdminAccountId == GetAccountId(cfg.centralNetworkServices.delegatedAdminAccount)

\* A variant of the test below that resolves a name again at every use.
NeverResolved(map, name) == FALSE

\* "Skip lookup if already added to map"
AlreadyResolved(map, name) == MapHas(map, name)

\* A variant of the test below that reads the local parameter in every account.
IsAnyAccount(owningAccountId) == TRUE

\* owningAccountId === cdk.Stack.of(this).account
IsOwningAccount(owningAccountId) == owningAccountId = stack.account

\* The identifier of a resource of the delegated administrator account, by
\* the parameter of that account or by the resource share `shareName` of
\* items of type `type`; the lookup of a resource share is a construct.
ResolveShared(t, src, name, vpcName, parameter, shareName, type, owningAccountId) ==
    IF IsOwningAccount(owningAccountId)
    THEN [t EXCEPT !.ret = SsmValue(parameter)]
    ELSE LET id == GetResourceShare(shareName, type, owningAccountId)
         IN  [Emit(t, Construct("ResourceShareLookup", src, name, vpcName, name, id, NoId,
                                owningAccountId, stack.region))
                EXCEPT !.ret = id]

\* The body of the loop of createDnsFirewallAssociations.
CreateDnsFirewallAssociation(t, vpcItem, firewallItem, owningAccountId) ==
    LET resolved ==
            IF ~AlreadyResolved(t.dnsFirewallMap, firewallItem.name)
            THEN LET r == ResolveShared(t, "dnsFirewallRuleGroup", firewallItem.name, vpcItem.name,
                                        "/accelerator/network/route53Resolver/firewall/ruleGroups/"
                                            \o firewallItem.name \o "/id",
                                        firewallItem.name \o "_ResolverFirewallRuleGroupShare",
                                        "route53resolver:FirewallRuleGroup", owningAccountId)
                 IN  [r EXCEPT !.dnsFirewallMap = MapSet(@, firewallItem.name, r.ret), !.ret = NoId]
            ELSE t
    IN  IF MapGet(resolved.dnsFirewallMap, firewallItem.name) = NoId
        THEN Throw(resolved, "DnsFirewallRuleGroupNotFound", <<firewallItem.name>>)
        ELSE Emit(resolved, Construct("ResolverFirewallRuleGroupAssociation", "dnsFirewallRuleGroup",
                                      firewallItem.name, vpcItem.name, firewallItem.name,
                                      MapGet(resolved.dnsFirewallMap, firewallItem.name),
                                      SsmValue("/accelerator/network/vpc/" \o vpcItem.name \o "/id"),
                                      stack.account, stack.region))

CreateDnsFirewallAssociations(t, vpcItem, owningAccountId) ==
    ForEach(LAMBDA u, firewallItem : CreateDnsFirewallAssociation(u, vpcItem, firewallItem,
                                                                  owningAccountId),
            t, vpcItem.dnsFirewallRuleGroups)

\* The names of the query log configurations of `configItem`, one for each
\* destination of the central configuration.
QueryLogConfigNames(configItem) ==
    LET destinations == cfg.centralNetworkServices.route53Resolver.queryLogs.destinations
    IN  (IF Includes(destinations, "s3") THEN << configItem \o "-s3" >> ELSE <<>>)
        \o (IF Includes(destinations, "cloud-watch-logs") THEN << configItem \o "-cwl" >> ELSE <<>>)

ResolveQueryLogConfig(t, vpcItem, nameItem, owningAccountId) ==
    IF ~AlreadyResolved(t.queryLogMap, nameItem)
    THEN LET r == ResolveShared(t, "queryLogs", nameItem, vpcItem.name,
                                "/accelerator/network/route53Resolver/queryLogConfigs/"
                                    \o nameItem \o "/id",
                                nameItem \o "_QueryLogConfigShare",
                                "route53resolver:ResolverQueryLogConfig", owningAccountId)
         IN  [r EXCEPT !.queryLogMap = MapSet(@, nameItem, r.ret), !.ret = NoId]
    ELSE t

AssociateQueryLogConfig(t, vpcItem, nameItem) ==
    IF MapGet(t.queryLogMap, nameItem) = NoId
    THEN Throw(t, "QueryLogConfigNotFound", <<nameItem>>)
    ELSE Emit(t, Construct("QueryLoggingConfigAssociation", "queryLogs", nameItem, vpcItem.name,
                           nameItem, MapGet(t.queryLogMap, nameItem),
                           SsmValue("/accelerator/network/vpc/" \o vpcItem.name \o "/id"),
                           stack.account, stack.region))

\* The body of the loop of createQueryLogConfigAssociations: the lookups of
\* the item's configurations, then their associations.
CreateQueryLogConfigAssociation(t, vpcItem, configItem, owningAccountId) ==
    Then(ForEach(LAMBDA u, nameItem : ResolveQueryLogConfig(u, vpcItem, nameItem, owningAccountId),
                 t, QueryLogConfigNames(configItem)),
         LAMBDA w : ForEach(LAMBDA u, nameItem : AssociateQueryLogConfig(u, vpcItem, nameItem),
                            w, QueryLogConfigNames(configItem)))

CreateQueryLogConfigAssociations(t, vpcItem, owningAccountId) ==
    ForEach(LAMBDA u, configItem : CreateQueryLogConfigAssociation(u, vpcItem, configItem,
                                                                   owningAccountId),
            t, vpcItem.queryLogs)

\* The body of the loop of createResolverRuleAssociations.
CreateResolverRuleAssociation(t, vpcItem, ruleItem, owningAccountId) ==
    LET resolved ==
            IF ~AlreadyResolved(t.resolverRuleMap, ruleItem)
            THEN LET r == ResolveShared(t, "resolverRules", ruleItem, vpcItem.name,
                                        "/accelerator/network/route53Resolver/rules/"
                                            \o ruleItem \o "/id",
                                        ruleItem \o "_ResolverRule",
                                        "route53resolver:ResolverRule", owningAccountId)
                 IN  [r EXCEPT !.resolverRuleMap = MapSet(@, ruleItem, r.ret), !.ret = NoId]
            ELSE t
    IN  IF MapGet(resolved.resolverRuleMap, ruleItem) = NoId
        THEN Throw(resolved, "ResolverRuleNotFound", <<ruleItem>>)
        ELSE Emit(resolved, Construct("ResolverRuleAssociation", "resolverRules", ruleItem,
                                      vpcItem.name, ruleItem,
                                      MapGet(resolved.resolverRuleMap, ruleItem),
                                      SsmValue("/accelerator/network/vpc/" \o vpcItem.name \o "/id"),
                                      stack.account, stack.region))

CreateResolverRuleAssociations(t, vpcItem, owningAccountId) ==
    ForEach(LAMBDA u, ruleItem : CreateResolverRuleAssociation(u, vpcItem, ruleItem,
                                                               owningAccountId),
            t, vpcItem.resolverRules)

\* createCentralNetworkAssociations: the associations of the VPCs of this
\* account and region.
CreateCentralNetworkAssociations(t) ==
    ForEach(LAMBDA u, vpcItem :
                IF IsVpcInScope(vpcItem)
                THEN Then(Then(CreateDnsFirewallAssociations(u, vpcItem, DelegatedAdminAccountId),
                               LAMBDA w : CreateQueryLogConfigAssociations(w, vpcItem,
                                                                           DelegatedAdminAccountId)),
                          LAMBDA w : CreateResolverRuleAssociations(w, vpcItem,
                                                                    DelegatedAdminAccountId))
                ELSE u,
            t, AllVpcItems)

\* ------------------------------------------------------------------ the run
NoScope == [account |-> "", region |-> ""]

Init ==
    /\ cfg \in Configs
    /\ dxPublishes \in (IF Len(cfg.directConnectGateways) > 0 THEN BOOLEAN ELSE {FALSE})
    /\ scopeIdx = 0
    /\ pc = "idle"
    /\ stack = NoScope
    /\ peeringList = <<>>
    /\ crossAcctRouteProvider = FALSE
    /\ prefixListMap = EmptyMap
    /\ routeTableMap = EmptyMap
    /\ transitGateways = EmptyMap
    /\ transitGatewayRouteTables = EmptyMap
    /\ transitGatewayAttachments = EmptyMap
    /\ dxGatewayMap = EmptyMap
    /\ vpcMap = EmptyMap
    /\ subnetMap = EmptyMap
    /\ gwlbMap = EmptyMap
    /\ targetGroupMap = EmptyMap
    /\ firewallMap = EmptyMap
    /\ nfwPolicyMap = EmptyMap
    /\ dnsFirewallMap = EmptyMap
    /\ queryLogMap = EmptyMap
    /\ resolverRuleMap = EmptyMap
    /\ emitted = <<>>
    /\ err = NoErr
    /\ results = <<>>
    /\ NoPipeline
    /\ NoInvocations
    /\ NoExclusions

\* The constructor's state after a method returned `t`: its fields, and the
\* next statement, or the catch block when the method threw.
AssignTo(t, next, catch) ==
    /\ peeringList' = t.peeringList
    /\ crossAcctRouteProvider' = t.crossAcctRouteProvider
    /\ prefixListMap' = t.prefixListMap
    /\ routeTableMap' = t.routeTableMap
    /\ transitGateways' = t.transitGateways
    /\ transitGatewayRouteTables' = t.transitGatewayRouteTables
    /\ transitGatewayAttachments' = t.transitGatewayAttachments
    /\ dxGatewayMap' = t.dxGatewayMap
    /\ vpcMap' = t.vpcMap
    /\ subnetMap' = t.subnetMap
    /\ gwlbMap' = t.gwlbMap
    /\ targetGroupMap' = t.targetGroupMap
    /\ firewallMap' = t.firewallMap
    /\ nfwPolicyMap' = t.nfwPolicyMap
    /\ dnsFirewallMap' = t.dnsFirewallMap
    /\ queryLogMap' = t.queryLogMap
    /\ resolverRuleMap' = t.resolverRuleMap
    /\ emitted' = t.emitted
    /\ err' = t.err
    /\ pc' = IF t.err # NoErr THEN catch ELSE next
    /\ UNCHANGED << cfg, dxPublishes, scopeIdx, stack, results, pipelineVars, handlerVars, loggingVars >>

\* A variant of the constructor without its try block's transfer of control:
\* the statement after a throwing method still runs.
AssignAndContinue(t, next) == AssignTo(t, next, next)

Assign(t, next) == AssignTo(t, next, "catch")

\* new NetworkAssociationsStack(scope, id, props) for the next scope of the
\* run: the constructor sets its private maps.
NewStack ==
    /\ pc = "idle"
    /\ scopeIdx < Len(AllScopes)
    /\ scopeIdx' = scopeIdx + 1
    /\ stack' = AllScopes[scopeIdx + 1]
    /\ peeringList' = <<>>
    /\ crossAcctRouteProvider' = FALSE
    /\ prefixListMap' = EmptyMap
    /\ routeTableMap' = EmptyMap
    /\ transitGateways' = EmptyMap
    /\ transitGatewayRouteTables' = EmptyMap
    /\ transitGatewayAttachments' = EmptyMap
    /\ dxGatewayMap' = EmptyMap
    /\ dnsFirewallMap' = EmptyMap
    /\ queryLogMap' = EmptyMap
    /\ resolverRuleMap' = EmptyMap
    /\ err' = NoErr
    /\ pc' = "setPeeringList"
    /\ UNCHANGED << cfg, dxPublishes, endpointVars, emitted, results, pipelineVars, handlerVars, loggingVars >>

StepSetPeeringList ==
    /\ pc = "setPeeringList"
    /\ Assign(SetPeeringList(This), "createCrossAcctRouteProvider")

StepCreateCrossAcctRouteProvider ==
    /\ pc = "createCrossAcctRouteProvider"
    /\ Assign(CreateCrossAcctRouteProvider(This), "setPrefixListMap")

StepSetPrefixListMap ==
    /\ pc = "setPrefixListMap"
    /\ Assign(SetPrefixListMap(This), "setRouteTableMap")

StepSetRouteTableMap ==
    /\ pc = "setRouteTableMap"
    /\ Assign(SetRouteTableMap(This), "createTransitGatewayResources")

StepCreateTransitGatewayResources ==
    /\ pc = "createTransitGatewayResources"
    /\ Assign(CreateTransitGatewayResources(This), "createCentralNetworkAssociations")

StepCreateCentralNetworkAssociations ==
    /\ pc = "createCentralNetworkAssociations"
    /\ Assign(CreateCentralNetworkAssociations(This), "createVpcPeeringConnections")

StepCreateVpcPeeringConnections ==
    /\ pc = "createVpcPeeringConnections"
    /\ Assign(CreateVpcPeeringConnections(This), "createDirectConnectResources")

StepCreateDirectConnectResources ==
    /\ pc = "createDirectConnectResources"
    /\ Assign(CreateDirectConnectResources(This), "createTransitGatewayStaticRoutes")

StepCreateTransitGatewayStaticRoutes ==
    /\ pc = "createTransitGatewayStaticRoutes"
    /\ Assign(CreateTransitGatewayStaticRoutes(This), "completed")

\* The end of the constructor or its catch block (the error is thrown again):
\* the stack's outcome is recorded and the run goes on to the next scope.
Finish ==
    /\ pc \in {"completed", "catch"}
    /\ results' = Append(results, [scope |-> stack, err |-> err])
    /\ pc' = "idle"
    /\ UNCHANGED << cfg, dxPublishes, scopeIdx, stack, peeringList, crossAcctRouteProvider,
                    prefixListMap, routeTableMap, transitGateways, transitGatewayRouteTables,
                    transitGatewayAttachments, dxGatewayMap, endpointVars, centralVars, emitted,
                    err, pipelineVars, handlerVars, loggingVars >>

Next ==
    \/ NewStack
    \/ StepSetPeeringList
    \/ StepCreateCrossAcctRouteProvider
    \/ StepSetPrefixListMap
    \/ StepSetRouteTableMap
    \/ StepCreateTransitGatewayResources
    \/ StepCreateCentralNetworkAssociations
    \/ StepCreateVpcPeeringConnections
    \/ StepCreateDirectConnectResources
    \/ StepCreateTransitGatewayStaticRoutes
    \/ Finish

Spec == Init /\ [][Next]_vars

\* ------------------------------------------------------------------ properties
IsSet(e) == e.type = "transitGatewayAttachments.set"

IsAssociation(e) == e.type = "TransitGatewayRouteTableAssociation"

IsPropagation(e) == e.type = "TransitGatewayRouteTablePropagation"

IsLink(e) == IsAssociation(e) \/ IsPropagation(e)

IsRoute(e) == e.type \in {"TransitGatewayStaticRoute", "TransitGatewayPrefixListReference"}

\* The request is built with an attachment of a route table: a link, or a
\* route or prefix list reference whose entry carries an attachment.
ReferencesAttachment(e) == IsLink(e) \/ (IsRoute(e) /\ e.src \notin {"blackhole", "none"})

\* The value last written under `key` in the scope of emitted[i] before
\* emitted[i] was created, NoId when the key was not written.
LastSet(i, key) ==
    LET before == {j \in 1..(i - 1) : /\ IsSet(emitted[j])
                                      /\ emitted[j].scope = emitted[i].scope
                                      /\ emitted[j].key = key}
    IN  IF before = {} THEN NoId
        ELSE emitted[CHOOSE j \in before : \A k \in before : k <= j].att

\* The stack of the scope has been built to its end without error.
Succeeded(scope) == \E i \in 1..Len(results) : results[i].scope = scope /\ results[i].err = NoErr

\* The run is over: every scope's stack has been built or has failed.
RunOver == scopeIdx = Len(AllScopes) /\ pc = "idle"

\* C1: every route table association, propagation, static route or prefix
\* list reference that is built with an attachment carries an identifier that
\* was resolved in its scope before the request was created: the identifier
\* stored last under the attachment key it reads or, for a peering
\* attachment, the identifier the peering lookup returned; none carries
\* `undefined`.
C1_AttachmentResolvedAtEmission ==
    \A i \in 1..Len(emitted) :
        ReferencesAttachment(emitted[i]) =>
            /\ emitted[i].att # NoId
            /\ IF emitted[i].src = "peering"
               THEN emitted[i].att.via \in {"ssm", "attachmentLookup"}
               ELSE LastSet(i, emitted[i].key) = emitted[i].att

\* A Direct Connect association and a static route to a VPN attachment have
\* been created in one stack.
C1_Witness ==
    /\ \E i \in 1..Len(emitted) : IsAssociation(emitted[i]) /\ emitted[i].src = "dx"
    /\ \E i \in 1..Len(emitted) : IsRoute(emitted[i]) /\ emitted[i].src = "vpn"

ItemOf(e) == IF e.src = "dx" THEN <<e.src, e.item, e.sub>> ELSE <<e.src, e.item, "">>

\* C3 as stated: in a scope every association is created before any
\* propagation, and every propagation before any static route, blackhole
\* route or prefix list reference.
C3_ThreePhases ==
    \A i, j \in 1..Len(emitted) :
        (i < j /\ emitted[i].scope = emitted[j].scope) =>
            /\ ~(IsPropagation(emitted[i]) /\ IsAssociation(emitted[j]))
            /\ ~(IsRoute(emitted[i]) /\ IsLink(emitted[j]))

\* C3, amended: the associations of one configuration item are created before
\* the propagations of that item, and every association and propagation of
\* the scope before any static route, blackhole route or prefix list
\* reference; associations of a later item follow propagations of an earlier.
C3_PhasesPerItem ==
    \A i, j \in 1..Len(emitted) :
        (i < j /\ emitted[i].scope = emitted[j].scope) =>
            /\ ~(/\ IsPropagation(emitted[i]) /\ IsAssociation(emitted[j])
                 /\ ItemOf(emitted[i]) = ItemOf(emitted[j]))
            /\ ~(IsRoute(emitted[i]) /\ IsLink(emitted[j]))

\* An item's association precedes its propagation, a Direct Connect
\* propagation follows, and a static route is created last.
C3_Witness ==
    \E i, j, k, l \in 1..Len(emitted) :
        /\ i < j /\ j < k /\ k < l
        /\ IsAssociation(emitted[i]) /\ IsPropagation(emitted[j])
        /\ ItemOf(emitted[i]) = ItemOf(emitted[j])
        /\ IsPropagation(emitted[k]) /\ emitted[k].src = "dx"
        /\ IsRoute(emitted[l])


\* The route entries of the transit gateway route tables of the configuration.
TgwRouteEntries ==
    UNION { UNION { { [table |-> tgw.routeTables[j].name, route |-> tgw.routeTables[j].routes[k]] :
                        k \in 1..Len(tgw.routeTables[j].routes) } :
                    j \in 1..Len(tgw.routeTables) } :
            tgw \in Range(cfg.transitGateways) }

\* C4 as stated: a build that fails on a reference it cannot resolve fails
\* with an error that names the reference, and no association, propagation or
\* route is created with the identifier missing.
C4_ErrorNamesTheReference ==
    /\ err # NoErr => err.names # <<>>
    /\ \A i \in 1..Len(emitted) : ReferencesAttachment(emitted[i]) => emitted[i].att # NoId

\* C5 as stated: the error raised for a route whose attachment is not found
\* names the route table and the route (its destination).
C5_ErrorNamesRouteAndTable ==
    err.kind = "UnableToLocateTransitGatewayAttachment" =>
        \E e \in TgwRouteEntries :
            /\ e.table \in Range(err.names)
            /\ \/ e.route.destinationCidrBlock \in Range(err.names)
               \/ e.route.destinationPrefixList \in Range(err.names)

\* The attachment an entry of transitGatewayAttachments was stored for.
AttachmentOf(e) == << e.src, e.item, e.sub, e.owner >>

\* C6 as stated: in a scope two different attachments of one transit gateway
\* are never stored under the same key.
C6_KeyUniquePerTransitGateway ==
    \A i, j \in 1..Len(emitted) :
        (/\ IsSet(emitted[i]) /\ IsSet(emitted[j])
         /\ emitted[i].scope = emitted[j].scope
         /\ emitted[i].tgw = emitted[j].tgw
         /\ AttachmentOf(emitted[i]) # AttachmentOf(emitted[j])) => emitted[i].key # emitted[j].key

\* The configuration of the peering named `name`, and its two VPCs.
PeeringNamed(name) == CHOOSE p \in Range(cfg.vpcPeering) : p.name = name

RequesterOf(name) == FindVpc(PeeringNamed(name).vpcs[1])

AccepterOf(name) == FindVpc(PeeringNamed(name).vpcs[2])

\* The VPC is owned by another account, or lies in another region, than `scope`.
OutOfScope(vpcItem, scope) ==
    GetAccountId(vpcItem.account) # scope.account \/ vpcItem.region # scope.region

IsAccepterRoute(e) == e.type \in {"PeeringRoute", "CrossAcctPeeringRoute"} /\ e.src = "accepter"

IsRequesterRoute(e) == e.type = "PeeringRoute" /\ e.src = "requester"

\* C7: the accepter VPC of a peering, and the prefix list an accepter route
\* names, are resolved by a lookup in the accepter's account and region if and
\* only if the accepter VPC is in another account or region than the stack;
\* a prefix list of a requester route never is, and every cross-account
\* lookup of a peering addresses another account or region than the stack's.
C7_LookupIffOutOfScope ==
    \A i \in 1..Len(emitted) :
        LET e == emitted[i]
        IN  /\ (e.type = "VpcPeering" \/ (IsAccepterRoute(e) /\ e.att # NoId)) =>
                   LET accepter == AccepterOf(e.item)
                   IN  /\ e.att.via = "lookup" <=> OutOfScope(accepter, e.scope)
                       /\ e.att.via = "lookup" =>
                              /\ e.att.account = GetAccountId(accepter.account)
                              /\ e.att.region = accepter.region
            /\ (IsRequesterRoute(e) /\ e.att # NoId) => e.att.via = "ssm"
            /\ (e.type = "SsmParameterLookup" /\ e.src \in {"vpc", "prefixList", "routeTable"}) =>
                   (e.owner # e.scope.account \/ e.region # e.scope.region)

\* A peering of two VPCs of one account in two regions has its accepter VPC
\* and the prefix list of an accepter route resolved by lookup, and a
\* prefix list of a requester route resolved locally.
C7_Witness ==
    /\ \E i \in 1..Len(emitted) :
           /\ emitted[i].type = "VpcPeering" /\ emitted[i].att.via = "lookup"
           /\ emitted[i].owner = emitted[i].scope.account
    /\ \E i \in 1..Len(emitted) :
           IsAccepterRoute(emitted[i]) /\ emitted[i].att # NoId /\ emitted[i].att.via = "lookup"
    /\ \E i \in 1..Len(emitted) : IsRequesterRoute(emitted[i]) /\ emitted[i].att # NoId

\* The peering routes of the accepter VPC of the peering named `name`.
AccepterRoutesOf(name) ==
    {re \in Range(RouteEntries(AccepterOf(name))) : IsPeeringRoute(re.entry, name)}

\* The accepter routes created so far, over all stacks, for one route entry.
CreatedFor(name, re) ==
    {i \in 1..Len(emitted) : /\ IsAccepterRoute(emitted[i])
                             /\ emitted[i].item = name
                             /\ emitted[i].sub = PeeringRouteId(AccepterOf(name), re)}

ScopeOf(vpcItem) == [account |-> GetAccountId(vpcItem.account), region |-> vpcItem.region]

\* C8: over all the stacks of a run an accepter route of a peering whose
\* accepter VPC is in another account or region than the requester VPC is
\* created at most once, only by the requester's stack and only through the
\* cross-account route resource; when the run is over and the requester's
\* stack was built without error it has been created exactly once.
C8_AccepterRouteOnce ==
    \A p \in Range(cfg.vpcPeering) :
        OutOfScope(AccepterOf(p.name), ScopeOf(RequesterOf(p.name))) =>
            \A re \in AccepterRoutesOf(p.name) :
                /\ Cardinality(CreatedFor(p.name, re)) <= 1
                /\ \A i \in CreatedFor(p.name, re) :
                       /\ emitted[i].type = "CrossAcctPeeringRoute"
                       /\ emitted[i].scope = ScopeOf(RequesterOf(p.name))
                /\ (RunOver /\ Succeeded(ScopeOf(RequesterOf(p.name)))) =>
                       Cardinality(CreatedFor(p.name, re)) = 1

\* The run is over and the accepter routes of two cross-scope peerings, one
\* requested in each of two scopes, have been created.
C8_Witness ==
    /\ RunOver
    /\ \E i, j \in 1..Len(emitted) :
           /\ emitted[i].type = "CrossAcctPeeringRoute"
           /\ emitted[j].type = "CrossAcctPeeringRoute"
           /\ emitted[i].scope # emitted[j].scope

IsProvider(e) == e.type = "CrossAccountRouteFramework"

\* Some peering requested in `scope` has an accepter VPC in another account
\* or region that carries a route to the peering.
NeedsProvider(scope) ==
    \E p \in Range(cfg.vpcPeering) :
        /\ ScopeOf(RequesterOf(p.name)) = scope
        /\ OutOfScope(AccepterOf(p.name), scope)
        /\ AccepterRoutesOf(p.name) # {}

\* C9: a stack creates at most one cross-account route provider, and only
\* when a peering it requests needs one; a stack that has been built has
\* created one exactly when it needs one; no accepter route fails for want
\* of the provider, and every cross-account route follows the provider of
\* its stack.
C9_OneProviderWhenNeeded ==
    /\ \A i, j \in 1..Len(emitted) :
           (IsProvider(emitted[i]) /\ IsProvider(emitted[j]) /\ emitted[i].scope = emitted[j].scope)
               => i = j
    /\ \A i \in 1..Len(emitted) : IsProvider(emitted[i]) => NeedsProvider(emitted[i].scope)
    /\ \A k \in 1..Len(results) :
           NeedsProvider(results[k].scope) =>
               \E i \in 1..Len(emitted) : IsProvider(emitted[i]) /\ emitted[i].scope = results[k].scope
    /\ err.kind # "CrossAccountRouteProviderNotCreated"
    /\ \A i \in 1..Len(emitted) :
           emitted[i].type = "CrossAcctPeeringRoute" =>
               \E j \in 1..(i - 1) : IsProvider(emitted[j]) /\ emitted[j].scope = emitted[i].scope

\* A run in which one stack created the provider and a cross-account route
\* and another stack, built to its end, created none.
C9_Witness ==
    /\ \E i \in 1..Len(emitted) : emitted[i].type = "CrossAcctPeeringRoute"
    /\ \E k \in 1..Len(results) :
           /\ results[k].err = NoErr
           /\ ~NeedsProvider(results[k].scope)
           /\ \E p \in Range(cfg.vpcPeering) : ScopeOf(RequesterOf(p.name)) = results[k].scope

\* C10 as stated: a route table association or propagation of a Direct
\* Connect gateway is created only after the association of that gateway
\* with the transit gateway has stored an attachment identifier.
C10_DxLinksAfterPublishedId ==
    \A i \in 1..Len(emitted) :
        (IsLink(emitted[i]) /\ emitted[i].src = "dx") =>
            \E j \in 1..(i - 1) :
                /\ IsSet(emitted[j]) /\ emitted[j].src = "dx"
                /\ emitted[j].scope = emitted[i].scope
                /\ emitted[j].item = emitted[i].item
                /\ emitted[j].tgw = emitted[i].sub


IsDxAssociation(e) ==
    e.type \in {"DirectConnectGatewayAssociation", "DirectConnectGatewayAssociationProposal"}

\* The transit gateway associations of the Direct Connect gateways of the
\* configuration whose transit gateway is configured, each with its gateway
\* and its transit gateway.
DxAssociationsConfigured ==
    UNION { { [dxgw |-> d, tgw |-> g] :
                g \in { x \in Range(cfg.transitGateways) :
                          \E a \in Range(d.transitGatewayAssociations) :
                              x.name = a.name /\ x.account = a.account } } :
            d \in Range(cfg.directConnectGateways) }

\* C11: a Direct Connect gateway association is created by the stack of the
\* transit gateway's account and region only; it is a proposal that carries
\* the gateway owner's account, with the gateway identifier read by a lookup
\* in that account, exactly when the gateway's account differs from the
\* transit gateway's, and a direct association with an identifier read in
\* the stack's own account otherwise; a stack built to its end has created
\* one for each association of its transit gateways.
C11_ProposalIffAccountsDiffer ==
    /\ \A i \in 1..Len(emitted) :
           IsDxAssociation(emitted[i]) =>
               \E c \in DxAssociationsConfigured :
                   LET e == emitted[i]
                       differs == GetAccountId(c.dxgw.account) # GetAccountId(c.tgw.account)
                   IN  /\ c.dxgw.name = e.item /\ c.tgw.name = e.sub
                       /\ e.scope = [account |-> GetAccountId(c.tgw.account), region |-> c.tgw.region]
                       /\ e.type = "DirectConnectGatewayAssociationProposal" <=> differs
                       /\ e.directConnectGatewayId # NoId
                       /\ e.directConnectGatewayId.account # e.scope.account <=> differs
                       /\ e.directConnectGatewayId.account = GetAccountId(c.dxgw.account)
                       /\ differs => /\ e.directConnectGatewayId.via = "lookup"
                                     /\ e.directConnectGatewayOwnerAccount = GetAccountId(c.dxgw.account)
                       /\ ~differs => e.directConnectGatewayOwnerAccount = Undefined
    /\ \A k \in 1..Len(results) :
           results[k].err = NoErr =>
               \A c \in DxAssociationsConfigured :
                   results[k].scope = [account |-> GetAccountId(c.tgw.account), region |-> c.tgw.region]
                       => \E i \in 1..Len(emitted) :
                              /\ IsDxAssociation(emitted[i])
                              /\ emitted[i].scope = results[k].scope
                              /\ emitted[i].item = c.dxgw.name /\ emitted[i].sub = c.tgw.name

\* A proposal has been created for a gateway of another account.
C11_Witness ==
    \E i \in 1..Len(emitted) :
        /\ emitted[i].type = "DirectConnectGatewayAssociationProposal"
        /\ emitted[i].directConnectGatewayId.via = "lookup"
        /\ emitted[i].owner # emitted[i].scope.account


\* ------------------------------------------------------------------ endpoint configurations
MaxEndpointRoutes == 1

\* NfwFirewallConfig
Firewall(name, vpc, subnets, firewallPolicy) ==
    [name |-> name, vpc |-> vpc, subnets |-> subnets, firewallPolicy |-> firewallPolicy]

\* GwlbEndpointConfig
GwlbEndpoint(name, vpc, subnet) == [name |-> name, vpc |-> vpc, subnet |-> subnet]

\* GwlbConfig
Gwlb(name, vpc, endpoints) ==
    [name |-> name, vpc |-> vpc, endpoints |-> endpoints, targetGroup |-> Undefined]

\* A VPC with subnets and one route table.
EndpointVpc(name, account, region, subnets, routes) ==
    [Vpc(name, FALSE, <<account>>, {}, region, << [name |-> "Rt", routes |-> routes] >>, <<>>)
        EXCEPT !.subnets = subnets]

\* The route entries the route table of VPC `Inspection` draws from: to an
\* endpoint of the VPC, to an endpoint of another VPC, to a firewall of the
\* VPC, to a firewall of a later VPC, and to a NAT gateway.
EndpointRoutePool ==
    { VpcRoute("ToEpA", "gatewayLoadBalancerEndpoint", "EpA", "10.20.0.0/16", Undefined),
      VpcRoute("ToEpSpoke", "gatewayLoadBalancerEndpoint", "EpSpoke", "10.21.0.0/16", Undefined),
      VpcRoute("ToFw", "networkFirewall", "Fw", "10.22.0.0/16", Undefined),
      VpcRoute("ToFwSpoke", "networkFirewall", "FwSpoke", "10.23.0.0/16", Undefined),
      VpcRoute("ToNat", "natGateway", "Nat", "0.0.0.0/0", Undefined) }

\* The route entries of the route table of VPC `Spoke`: none, to its own
\* endpoint, or to the firewall of the earlier VPC.
SpokeRouteChoices ==
    { <<>>,
      << VpcRoute("ToEpSpoke", "gatewayLoadBalancerEndpoint", "EpSpoke", "10.20.0.0/16", Undefined) >>,
      << VpcRoute("ToFw", "networkFirewall", "Fw", "10.22.0.0/16", Undefined) >> }

\* centralNetworkServices.networkFirewall.firewalls: none, one firewall per
\* VPC with a shared policy, a firewall in a subnet the VPC does not have,
\* and a firewall without subnets.
FirewallChoices ==
    { <<>>,
      << Firewall("Fw", "Inspection", <<"A">>, "Policy"),
         Firewall("FwSpoke", "Spoke", <<"A">>, "Policy") >>,
      << Firewall("Fw", "Inspection", <<"Z">>, "Policy") >>,
      << Firewall("Fw", "Inspection", <<>>, "Policy") >> }

\* centralNetworkServices.gatewayLoadBalancers: none, a load balancer with
\* an endpoint in each VPC, and one with an endpoint in a subnet the VPC does
\* not have.
GwlbChoices ==
    { <<>>,
      << Gwlb("Glb", "Inspection", << GwlbEndpoint("EpA", "Inspection", "A"),
                                      GwlbEndpoint("EpSpoke", "Spoke", "A") >>) >>,
      << Gwlb("Glb", "Inspection", << GwlbEndpoint("EpA", "Inspection", "Z") >>) >> }

\* Configurations that vary the endpoints, the firewalls and their routes.
EndpointConfigs ==
    { [NetworkConfig(<< EndpointVpc("Inspection", "Network", "us-east-1", <<"A", "B">>, routes),
                        EndpointVpc("Spoke", account, "us-east-1", <<"A">>, spokeRoutes) >>,
                     <<>>, <<>>, <<>>, <<>>, <<>>)
          EXCEPT !.centralNetworkServices = CentralNetworkServices(admin, gwlbs, firewalls)] :
        routes \in SeqsUpTo(EndpointRoutePool, MaxEndpointRoutes),
        spokeRoutes \in SpokeRouteChoices,
        account \in AccountNames, admin \in AccountNames,
        gwlbs \in GwlbChoices, firewalls \in FirewallChoices }

\* ------------------------------------------------------------------ NetworkVpcEndpointsStack
VpcIdParameter(vpcName) == "/accelerator/network/vpc/" \o vpcName \o "/id"

SubnetParameter(vpcName, subnetName) ==
    "/accelerator/network/vpc/" \o vpcName \o "/subnet/" \o subnetName \o "/id"

\* The body of the loop that stores the VPC, subnet and route table ids of
\* the VPCs of this account and region.
StoreVpcItemIds(t, vpcItem) ==
    IF IsVpcInScope(vpcItem)
    THEN LET withVpc == [t EXCEPT !.vpcMap = MapSet(@, vpcItem.name, SsmValue(VpcIdParameter(vpcItem.name)))]
             withSubnets ==
                 ForEach(LAMBDA u, subnetItem :
                             [u EXCEPT !.subnetMap =
                                 MapSet(@, vpcItem.name \o "_" \o subnetItem,
                                        SsmValue(SubnetParameter(vpcItem.name, subnetItem)))],
                         withVpc, vpcItem.subnets)
         IN  ForEach(LAMBDA u, routeTableItem :
                         [u EXCEPT !.routeTableMap =
                             MapSet(@, vpcItem.name \o "_" \o routeTableItem.name,
                                    SsmValue(RouteTableParameter(vpcItem.name, routeTableItem.name)))],
                     withSubnets, vpcItem.routeTables)
    ELSE t

StoreVpcIds(t) == ForEach(StoreVpcItemIds, t, AllVpcItems)

Firewalls == cfg.centralNetworkServices.networkFirewall.firewalls

\* A variant of the test below that takes every stack for the delegated
\* administrator's.
IsAnyAdminScope == TRUE

\* delegatedAdminAccountId === cdk.Stack.of(this).account
IsDelegatedAdminScope == DelegatedAdminAccountId = stack.account

SetNfwPolicyMapItem(t, vpcItem, firewallItem) ==
    IF firewallItem.vpc = vpcItem.name /\ ~AlreadyResolved(t.nfwPolicyMap, firewallItem.firewallPolicy)
    THEN IF IsDelegatedAdminScope
         THEN [t EXCEPT !.nfwPolicyMap =
                  MapSet(@, firewallItem.firewallPolicy,
                         SsmValue("/accelerator/network/networkFirewall/policies/"
                                    \o firewallItem.firewallPolicy \o "/arn"))]
         ELSE LET policyArn == GetResourceShare(firewallItem.firewallPolicy \o "_NetworkFirewallPolicyShare",
                                                "network-firewall:FirewallPolicy",
                                                DelegatedAdminAccountId)
              IN  [Emit(t, Construct("ResourceShareLookup", "firewallPolicy",
                                     firewallItem.firewallPolicy, firewallItem.name,
                                     firewallItem.firewallPolicy, policyArn, NoId,
                                     DelegatedAdminAccountId, stack.region))
                     EXCEPT !.nfwPolicyMap = MapSet(@, firewallItem.firewallPolicy, policyArn)]
    ELSE t

SetNfwPolicyMap(t) ==
    ForEach(LAMBDA u, vpcItem :
                IF IsVpcInScope(vpcItem)
                THEN ForEach(LAMBDA w, firewallItem : SetNfwPolicyMapItem(w, vpcItem, firewallItem),
                             u, Firewalls)
                ELSE u,
            [t EXCEPT !.nfwPolicyMap = EmptyMap], AllVpcItems)

\* The subnet ids of a firewall, kept in `tmp` under the subnet names; a
\* subnet the VPC does not have is an error.
FirewallSubnets(t, firewallItem) ==
    ForEach(LAMBDA u, subnetItem :
                LET subnetId == MapGet(u.subnetMap, firewallItem.vpc \o "_" \o subnetItem)
                IN  IF subnetId # NoId
                    THEN [u EXCEPT !.tmp = MapSet(@, subnetItem, subnetId)]
                    ELSE Throw(u, "FirewallSubnetNotFound", <<subnetItem, firewallItem.vpc>>),
            [t EXCEPT !.tmp = EmptyMap], firewallItem.subnets)

CreateNetworkFirewall(t, firewallItem) ==
    LET policyArn == MapGet(t.nfwPolicyMap, firewallItem.firewallPolicy)
    IN  IF policyArn = NoId
        THEN Throw(t, "FirewallPolicyNotFound", <<firewallItem.firewallPolicy>>)
        ELSE Emit(t, Construct("NetworkFirewall", "networkFirewall", firewallItem.name,
                               firewallItem.vpc, firewallItem.firewallPolicy, policyArn, NoId,
                               stack.account, stack.region))

\* The body of the loop over the firewalls for one VPC.
CreateFirewallOfVpc(t, vpcItem, firewallItem) ==
    IF firewallItem.vpc = vpcItem.name
    THEN LET checked == FirewallSubnets(t, firewallItem)
         IN  IF checked.err # NoErr THEN checked
             ELSE IF DOMAIN checked.tmp # {}
             THEN LET nfw == CreateNetworkFirewall([checked EXCEPT !.tmp = EmptyMap], firewallItem)
                  IN  IF nfw.err # NoErr THEN nfw
                      ELSE [nfw EXCEPT !.firewallMap =
                               MapSet(@, firewallItem.name,
                                      AttributeValue(firewallItem.vpc \o firewallItem.name
                                                       \o "NetworkFirewall", "firewallArn"))]
             ELSE [checked EXCEPT !.tmp = EmptyMap]
    ELSE t

\* A variant of the test below that finds every firewall.
FirewallAlwaysFound(firewall) == FALSE

\* if (!firewall) of the endpoint routes
FirewallMissing(firewall) == firewall = NoId

\* The body of the loop over the route entries that creates the network
\* firewall routes.
CreateFirewallRoute(t, vpcItem, re) ==
    IF re.entry.type # Undefined /\ re.entry.type = "networkFirewall"
    THEN LET routeTableId == MapGet(t.routeTableMap, vpcItem.name \o "_" \o re.routeTable.name)
             firewall == MapGet(t.firewallMap, re.entry.target)
         IN  IF routeTableId = NoId
             THEN Throw(t, "EndpointRouteTableNotFound", <<re.routeTable.name>>)
             ELSE IF FirewallMissing(firewall)
             THEN Throw(t, "NetworkFirewallNotFound", <<re.entry.target>>)
             ELSE Emit(t, Construct("NetworkFirewallRoute", "networkFirewall", re.entry.target,
                                    PeeringRouteId(vpcItem, re), re.entry.destination, firewall,
                                    routeTableId, stack.account, stack.region))
    ELSE t

\* The body of the loop over the VPCs of this account and region; the VPCs
\* of the generated configurations have no gateway or interface endpoints
\* and the configurations no resolver endpoints.
CreateVpcItemEndpoints(t, vpcItem) ==
    IF IsVpcInScope(vpcItem)
    THEN IF MapGet(t.vpcMap, vpcItem.name) = NoId
         THEN Throw(t, "VpcNotFound", <<vpcItem.name>>)
         ELSE Then(ForEach(LAMBDA u, firewallItem : CreateFirewallOfVpc(u, vpcItem, firewallItem),
                           t, Firewalls),
                   LAMBDA u : ForEach(LAMBDA w, re : CreateFirewallRoute(w, vpcItem, re),
                                      u, RouteEntries(vpcItem)))
    ELSE t

CreateVpcEndpoints(t) == ForEach(CreateVpcItemEndpoints, t, AllVpcItems)


\* ------------------------------------------------------------------ NetworkAssociationsGwlbStack
GatewayLoadBalancers == cfg.centralNetworkServices.gatewayLoadBalancers

\* setGwlbMap(vpcItem), its entries added to gwlbMap
SetGwlbMap(t, vpcItem) ==
    ForEach(LAMBDA u, gwlbItem :
                IF gwlbItem.vpc = vpcItem.name
                THEN [u EXCEPT !.gwlbMap =
                         MapSet(@, gwlbItem.name,
                                SsmValue("/accelerator/network/gwlb/" \o gwlbItem.name \o "/arn"))]
                ELSE u,
            t, GatewayLoadBalancers)

\* setInitialMaps: setVpcResourceMaps and setGwlbMap for the VPCs of this
\* account and region (the VPCs of the generated configurations have no
\* security groups).
SetInitialMaps(t) ==
    ForEach(LAMBDA u, vpcItem :
                IF IsVpcInScope(vpcItem) THEN SetGwlbMap(StoreVpcItemIds(u, vpcItem), vpcItem) ELSE u,
            t, AllVpcItems)

CreateGwlbListener(t, gwlbItem) ==
    IF MapGet(t.gwlbMap, gwlbItem.name) = NoId
    THEN Throw(t, "GwlbArnNotFound", <<gwlbItem.name>>)
    ELSE Emit(t, Construct("GwlbListener", "gwlb", gwlbItem.name, gwlbItem.vpc, gwlbItem.targetGroup,
                           MapGet(t.gwlbMap, gwlbItem.name),
                           MapGet(t.targetGroupMap, gwlbItem.targetGroup), stack.account,
                           stack.region))

CreateGwlbListeners(t) ==
    ForEach(LAMBDA u, gwlbItem :
                IF gwlbItem.targetGroup # Undefined /\ MapHas(u.targetGroupMap, gwlbItem.targetGroup)
                THEN CreateGwlbListener(u, gwlbItem)
                ELSE u,
            t, GatewayLoadBalancers)

\* createGwlbEndpointItem; the endpoint is stored in the map of the VPC's
\* endpoints (`tmp`).
CreateGwlbEndpointItem(t, endpointItem, endpointServiceId) ==
    LET subnet == MapGet(t.subnetMap, endpointItem.vpc \o "_" \o endpointItem.subnet)
        id == endpointItem.vpc \o "Vpc" \o endpointItem.name \o "GwlbEp"
    IN  IF subnet = NoId
        THEN Throw(t, "GwlbEndpointSubnetNotFound", <<endpointItem.subnet, endpointItem.vpc>>)
        ELSE [Emit(t, Construct("GwlbEndpoint", "gwlbEndpoint", endpointItem.name, endpointItem.vpc,
                                endpointItem.subnet, endpointServiceId, NoId, stack.account,
                                stack.region))
                EXCEPT !.tmp = MapSet(@, endpointItem.name, AttributeValue(id, "endpointId"))]

\* The endpoint service id of a load balancer: a cross-account lookup outside
\* the delegated administrator account, a local parameter inside it.
EndpointServiceId(loadBalancerItem) ==
    LET name == "/accelerator/network/gwlb/" \o loadBalancerItem.name \o "/endpointService/id"
    IN  IF DelegatedAdminAccountId # stack.account
        THEN LookupValue(name, DelegatedAdminAccountId, stack.region)
        ELSE SsmValue(name)

\* createGwlbEndpointMap: the endpoints of one load balancer in one VPC; the
\* service id is looked up for the first of them (`ret` holds it).
CreateGwlbEndpointMap(t, vpcItem, loadBalancerItem) ==
    LET made ==
            ForEach(LAMBDA u, endpointItem :
                        IF endpointItem.vpc = vpcItem.name
                        THEN LET first == u.ret = NoId
                                 endpointServiceId ==
                                     IF first THEN EndpointServiceId(loadBalancerItem) ELSE u.ret
                                 looked ==
                                     IF first /\ DelegatedAdminAccountId # stack.account
                                     THEN NewSsmParameterLookup(u, Construct("SsmParameterLookup", "gwlbEndpointService",
                                                            loadBalancerItem.name, vpcItem.name,
                                                            Undefined, endpointServiceId, NoId,
                                                            DelegatedAdminAccountId, stack.region))
                                     ELSE u
                             IN  IF looked.err # NoErr THEN looked
                                 ELSE CreateGwlbEndpointItem([looked EXCEPT !.ret = endpointServiceId],
                                                             endpointItem, endpointServiceId)
                        ELSE u,
                    [t EXCEPT !.ret = NoId], loadBalancerItem.endpoints)
    IN  [made EXCEPT !.ret = NoId]

\* createGwlbEndpoints: the map of the endpoints of one VPC, held in `tmp`.
CreateGwlbEndpoints(t, vpcItem) ==
    ForEach(LAMBDA u, loadBalancerItem : CreateGwlbEndpointMap(u, vpcItem, loadBalancerItem),
            [t EXCEPT !.tmp = EmptyMap], GatewayLoadBalancers)

\* A variant of the test below that finds every endpoint.
GwlbEndpointAlwaysFound(gwlbEndpoint) == FALSE

\* if (!gwlbEndpoint) of createGwlbRouteTableEntryItem
GwlbEndpointMissing(gwlbEndpoint) == gwlbEndpoint = NoId

CreateGwlbRouteTableEntryItem(t, vpcItem, re) ==
    IF re.entry.type # Undefined /\ re.entry.type = "gatewayLoadBalancerEndpoint"
    THEN LET gwlbEndpoint == MapGet(t.tmp, re.entry.target)
             routeTableId == MapGet(t.routeTableMap, vpcItem.name \o "_" \o re.routeTable.name)
         IN  IF routeTableId = NoId
             THEN Throw(t, "EndpointRouteTableNotFound", <<re.routeTable.name>>)
             ELSE IF GwlbEndpointMissing(gwlbEndpoint)
             THEN Throw(t, "GwlbEndpointNotFound", <<re.entry.target>>)
             ELSE Emit(t, Construct("GwlbEndpointRoute", "gatewayLoadBalancerEndpoint",
                                    re.entry.target, PeeringRouteId(vpcItem, re),
                                    re.entry.destination, gwlbEndpoint, routeTableId,
                                    stack.account, stack.region))
    ELSE t

CreateGwlbRouteTableEntries(t, vpcItem) ==
    ForEach(LAMBDA u, re : CreateGwlbRouteTableEntryItem(u, vpcItem, re), t, RouteEntries(vpcItem))

CreateGwlbEndpointResources(t) ==
    LET built ==
            ForEach(LAMBDA u, vpcItem :
                        IF IsVpcInScope(vpcItem)
                        THEN IF MapGet(u.vpcMap, vpcItem.name) = NoId
                             THEN Throw(u, "VpcNotFound", <<vpcItem.name>>)
                             ELSE Then(CreateGwlbEndpoints(u, vpcItem),
                                       LAMBDA w : CreateGwlbRouteTableEntries(w, vpcItem))
                        ELSE u,
                    t, AllVpcItems)
    IN  [built EXCEPT !.tmp = EmptyMap]

CreateGwlbResources(t) == Then(CreateGwlbListeners(t), CreateGwlbEndpointResources)

\* ------------------------------------------------------------------ the run of the endpoint stacks
EndpointsInit ==
    /\ cfg \in EndpointConfigs
    /\ dxPublishes = FALSE
    /\ scopeIdx = 0
    /\ pc = "idle"
    /\ stack = NoScope
    /\ peeringList = <<>>
    /\ crossAcctRouteProvider = FALSE
    /\ prefixListMap = EmptyMap
    /\ routeTableMap = EmptyMap
    /\ transitGateways = EmptyMap
    /\ transitGatewayRouteTables = EmptyMap
    /\ transitGatewayAttachments = EmptyMap
    /\ dxGatewayMap = EmptyMap
    /\ vpcMap = EmptyMap
    /\ subnetMap = EmptyMap
    /\ gwlbMap = EmptyMap
    /\ targetGroupMap = EmptyMap
    /\ firewallMap = EmptyMap
    /\ nfwPolicyMap = EmptyMap
    /\ dnsFirewallMap = EmptyMap
    /\ queryLogMap = EmptyMap
    /\ resolverRuleMap = EmptyMap
    /\ emitted = <<>>
    /\ err = NoErr
    /\ results = <<>>
    /\ NoPipeline
    /\ NoInvocations
    /\ NoExclusions

\* The private maps of a new stack.
ResetMaps ==
    /\ routeTableMap' = EmptyMap
    /\ vpcMap' = EmptyMap
    /\ subnetMap' = EmptyMap
    /\ gwlbMap' = EmptyMap
    /\ targetGroupMap' = EmptyMap
    /\ firewallMap' = EmptyMap
    /\ nfwPolicyMap' = EmptyMap
    /\ UNCHANGED centralVars
    /\ err' = NoErr
    /\ UNCHANGED << cfg, dxPublishes, peeringList, crossAcctRouteProvider, prefixListMap,
                    transitGateways, transitGatewayRouteTables, transitGatewayAttachments,
                    dxGatewayMap, emitted, results, pipelineVars, handlerVars, loggingVars >>

\* new NetworkVpcEndpointsStack(scope, id, props) for the next scope.
NewEndpointsStack ==
    /\ pc = "idle"
    /\ scopeIdx < Len(AllScopes)
    /\ scopeIdx' = scopeIdx + 1
    /\ stack' = AllScopes[scopeIdx + 1]
    /\ ResetMaps
    /\ pc' = "endpoints.storeVpcIds"

EndpointsStoreVpcIds ==
    /\ pc = "endpoints.storeVpcIds"
    /\ AssignTo(StoreVpcIds(This), "endpoints.setNfwPolicyMap", "endpoints.thrown")

EndpointsSetNfwPolicyMap ==
    /\ pc = "endpoints.setNfwPolicyMap"
    /\ AssignTo(SetNfwPolicyMap(This), "endpoints.createVpcEndpoints", "endpoints.thrown")

EndpointsCreateVpcEndpoints ==
    /\ pc = "endpoints.createVpcEndpoints"
    /\ AssignTo(CreateVpcEndpoints(This), "endpoints.completed", "endpoints.thrown")

\* The stack's outcome: its constructor returned or threw.
Outcome(stackName, next) ==
    /\ results' = Append(results, [scope |-> stack, err |-> err, stackName |-> stackName])
    /\ pc' = next
    /\ UNCHANGED << cfg, dxPublishes, scopeIdx, stack, peeringList, crossAcctRouteProvider,
                    prefixListMap, routeTableMap, transitGateways, transitGatewayRouteTables,
                    transitGatewayAttachments, dxGatewayMap, endpointVars, centralVars, emitted,
                    err, pipelineVars, handlerVars, loggingVars >>

EndpointsFinish ==
    /\ pc \in {"endpoints.completed", "endpoints.thrown"}
    /\ Outcome("NetworkVpcEndpointsStack", "endpoints.done")

\* new NetworkAssociationsGwlbStack(scope, id, props) for the same scope.
NewGwlbStack ==
    /\ pc = "endpoints.done"
    /\ ResetMaps
    /\ UNCHANGED << scopeIdx, stack >>
    /\ pc' = "gwlb.setInitialMaps"

GwlbSetInitialMaps ==
    /\ pc = "gwlb.setInitialMaps"
    /\ AssignTo(SetInitialMaps(This), "gwlb.createGwlbResources", "gwlb.thrown")

GwlbCreateGwlbResources ==
    /\ pc = "gwlb.createGwlbResources"
    /\ AssignTo(CreateGwlbResources(This), "gwlb.completed", "gwlb.thrown")

GwlbFinish ==
    /\ pc \in {"gwlb.completed", "gwlb.thrown"}
    /\ Outcome("NetworkAssociationsGwlbStack", "idle")

EndpointsNext ==
    \/ NewEndpointsStack
    \/ EndpointsStoreVpcIds
    \/ EndpointsSetNfwPolicyMap
    \/ EndpointsCreateVpcEndpoints
    \/ EndpointsFinish
    \/ NewGwlbStack
    \/ GwlbSetInitialMaps
    \/ GwlbCreateGwlbResources
    \/ GwlbFinish

EndpointsSpec == EndpointsInit /\ [][EndpointsNext]_vars

IsEndpoint(e) == e.type \in {"GwlbEndpoint", "NetworkFirewall"}

IsEndpointRoute(e) == e.type \in {"GwlbEndpointRoute", "NetworkFirewallRoute"}

\* The kind of route that targets an endpoint of that type.
RouteTypeOf(e) == IF e.type = "GwlbEndpoint" THEN "GwlbEndpointRoute" ELSE "NetworkFirewallRoute"

\* C12: every route to a Gateway Load Balancer endpoint or to a network
\* firewall is created after the endpoint or firewall its target names was
\* created by a stack of the same account and region, and carries the
\* identifier of that endpoint; a Gateway Load Balancer endpoint route
\* targets an endpoint of the route table's own VPC.
C12_EndpointBeforeItsRoutes ==
    \A i \in 1..Len(emitted) :
        IsEndpointRoute(emitted[i]) =>
            /\ emitted[i].att # NoId
            /\ emitted[i].att.via = "attribute"
            /\ \E j \in 1..(i - 1) :
                   /\ IsEndpoint(emitted[j])
                   /\ RouteTypeOf(emitted[j]) = emitted[i].type
                   /\ emitted[j].scope = emitted[i].scope
                   /\ emitted[j].item = emitted[i].item
                   /\ emitted[i].type = "GwlbEndpointRoute" =>
                          \E v \in Range(AllVpcItems) :
                              /\ v.name = emitted[j].sub
                              /\ \E re \in Range(RouteEntries(v)) :
                                     PeeringRouteId(v, re) = emitted[i].sub

\* A stack has created a route to an endpoint that was created before it, and
\* a stack has failed on a route whose target was not created.
C12_Witness ==
    /\ \E i \in 1..Len(emitted) : IsEndpointRoute(emitted[i])
    /\ \E k \in 1..Len(results) :
           results[k].err.kind \in {"GwlbEndpointNotFound", "NetworkFirewallNotFound"}


\* The requests of a scope that reach deployment: the application writes the
\* template of a stack once its constructor has returned, and writes nothing
\* for a stack whose constructor threw.
Committed(scope) ==
    IF Succeeded(scope) THEN SelectSeq(emitted, LAMBDA e : e.scope = scope) ELSE <<>>

Failed(scope) == \E i \in 1..Len(results) : results[i].scope = scope /\ results[i].err # NoErr

MaxTargetScopes == 2

\* The run order of an action that is given none.
DefaultRunOrder == 1

PipelineAction(actionName, kind, command, stage, runOrder) ==
    [actionName |-> actionName, kind |-> kind, command |-> command, stage |-> stage,
     runOrder |-> runOrder]

\* createToolkitStage(stageProps): a CodeBuild action of the toolkit project.
CreateToolkitStage(actionName, command, stage, runOrder) ==
    PipelineAction(actionName, "toolkit", command, stage, runOrder)

\* A variant that puts the new stage in front of the stages added before.
AddStageInFront(p, stageName, actions) == << [stageName |-> stageName, actions |-> actions] >> \o p

\* pipeline.addStage: the stage is added after the stages added before.
AddStage(p, stageName, actions) == Append(p, [stageName |-> stageName, actions |-> actions])

SourceStageActions ==
    << PipelineAction("Source", "source", Undefined, Undefined, DefaultRunOrder),
       PipelineAction("Configuration", "source", Undefined, Undefined, DefaultRunOrder) >>

BuildStageActions == << PipelineAction("Build", "build", Undefined, Undefined, DefaultRunOrder) >>

\* addReviewStage()
AddReviewStage(p, enableApprovalStage) ==
    IF enableApprovalStage
    THEN AddStage(p, "Review",
                  << CreateToolkitStage("Diff", "diff", Undefined, 1),
                     PipelineAction("Approve", "approval", Undefined, Undefined, 2) >>)
    ELSE p

\* A variant of the Logging stage whose actions are given no run order.
LoggingStageActionsUnordered ==
    << CreateToolkitStage("Key", "deploy", "KEY", DefaultRunOrder),
       CreateToolkitStage("Logging", "deploy", "LOGGING", DefaultRunOrder) >>

LoggingStageActions ==
    << CreateToolkitStage("Key", "deploy", "KEY", 1),
       CreateToolkitStage("Logging", "deploy", "LOGGING", 2) >>

DeployStageActions ==
    << CreateToolkitStage("Network_Prepare", "deploy", "NETWORK_PREP", 1),
       CreateToolkitStage("Security", "deploy", "SECURITY", 1),
       CreateToolkitStage("Operations", "deploy", "OPERATIONS", 1),
       CreateToolkitStage("Network_VPCs", "deploy", "NETWORK_VPC", 2),
       CreateToolkitStage("Security_Resources", "deploy", "SECURITY_RESOURCES", 2),
       CreateToolkitStage("Network_Associations", "deploy", "NETWORK_ASSOCIATIONS", 3),
       CreateToolkitStage("Customizations", "deploy", "CUSTOMIZATIONS", 4),
       CreateToolkitStage("Finalize", "deploy", "FINALIZE", 5) >>

\* The stages the constructor adds to the pipeline, in order.
PipelineStages(enableApprovalStage) ==
    LET p1 == AddStage(<<>>, "Source", SourceStageActions)
        p2 == AddStage(p1, "Build", BuildStageActions)
        p3 == AddStage(p2, "Prepare",
                       << CreateToolkitStage("Prepare", "deploy", "PREPARE", DefaultRunOrder) >>)
        p4 == AddStage(p3, "Accounts",
                       << CreateToolkitStage("Accounts", "deploy", "ACCOUNTS", DefaultRunOrder) >>)
        p5 == AddStage(p4, "Bootstrap",
                       << CreateToolkitStage("Bootstrap", "bootstrap", Undefined, DefaultRunOrder) >>)
        p6 == AddReviewStage(p5, enableApprovalStage)
        p7 == AddStage(p6, "Logging", LoggingStageActions)
        p8 == AddStage(p7, "Organization",
                       << CreateToolkitStage("Organizations", "deploy", "ORGANIZATIONS",
                                             DefaultRunOrder) >>)
        p9 == AddStage(p8, "SecurityAudit",
                       << CreateToolkitStage("SecurityAudit", "deploy", "SECURITY_AUDIT",
                                             DefaultRunOrder) >>)
    IN  AddStage(p9, "Deploy", DeployStageActions)


\* ------------------------------------------------------------------ an execution of the pipeline
\* The actions of the stages `p`.
ActionsOf(p) == UNION { { p[i].actions[j] : j \in 1..Len(p[i].actions) } : i \in 1..Len(p) }

\* The index of the stage that holds the action.
StageIdxOf(actionName) ==
    CHOOSE i \in 1..Len(pipeline) :
        \E j \in 1..Len(pipeline[i].actions) : pipeline[i].actions[j].actionName = actionName

RunOrderOf(actionName) ==
    LET actions == pipeline[StageIdxOf(actionName)].actions
    IN  actions[CHOOSE j \in 1..Len(actions) : actions[j].actionName = actionName].runOrder

\* The actions of the stages up to stage `s` that satisfy `Test(stageIdx, action)`
\* are all in one of the states `states`.
AllIn(s, Test(_, _), states) ==
    \A i \in 1..s : \A j \in 1..Len(pipeline[i].actions) :
        Test(i, pipeline[i].actions[j]) => actionState[pipeline[i].actions[j].actionName] \in states

\* The scopes an action works on: the target scopes of a toolkit action, the
\* action itself otherwise.
UnitsOf(action) == IF action.kind = "toolkit" THEN 1..MaxTargetScopes ELSE {1}

\* A variant that orders stages only: the run order inside a stage is ignored.
CanStartAfterStage(actionName) ==
    /\ actionState[actionName] = "pending"
    /\ LET s == StageIdxOf(actionName)
       IN  AllIn(s, LAMBDA i, b : i < s, {"succeeded"})

\* A variant that waits for the end of the earlier actions, not their success.
CanStartWhenOver(actionName) ==
    /\ actionState[actionName] = "pending"
    /\ LET s == StageIdxOf(actionName)
           r == RunOrderOf(actionName)
       IN  AllIn(s, LAMBDA i, b : i < s \/ b.runOrder < r, {"succeeded", "failed"})

\* The pipeline starts an action when every action of an earlier stage, and
\* every action of its stage with a lower run order, has succeeded.
CanStart(actionName) ==
    /\ actionState[actionName] = "pending"
    /\ LET s == StageIdxOf(actionName)
           r == RunOrderOf(actionName)
       IN  AllIn(s, LAMBDA i, b : i < s \/ b.runOrder < r, {"succeeded"})

\* new AcceleratorPipeline(scope, id, props); no action has run yet.
ConstructPipeline ==
    /\ pipeline = <<>>
    /\ \E enableApprovalStage \in BOOLEAN :
           /\ pipeline' = PipelineStages(enableApprovalStage)
           /\ actionState' = [n \in { a.actionName : a \in ActionsOf(pipeline') } |-> "pending"]
           /\ scopeState' = [n \in { a.actionName : a \in ActionsOf(pipeline') } |->
                                [u \in UnitsOf(CHOOSE a \in ActionsOf(pipeline') : a.actionName = n)
                                    |-> "idle"]]
    /\ UNCHANGED << stackVars, handlerVars, loggingVars >>

\* The actions of one stage and run order start together.
StartActions ==
    /\ \E first \in DOMAIN actionState :
           /\ CanStart(first)
           /\ LET s == StageIdxOf(first)
                  r == RunOrderOf(first)
                  group == { pipeline[s].actions[j].actionName :
                                j \in { k \in 1..Len(pipeline[s].actions) :
                                            pipeline[s].actions[k].runOrder = r } }
              IN  /\ actionState' = [n \in DOMAIN actionState |->
                                        IF n \in group THEN "running" ELSE actionState[n]]
                  /\ scopeState' = [n \in DOMAIN scopeState |->
                                       IF n \in group
                                       THEN [u \in DOMAIN scopeState[n] |-> "running"]
                                       ELSE scopeState[n]]
    /\ UNCHANGED << pipeline, stackVars, handlerVars, loggingVars >>

\* The run of an action in one scope ends without error.
ScopeSucceeds(actionName, u) ==
    /\ scopeState[actionName][u] = "running"
    /\ scopeState' = [scopeState EXCEPT ![actionName][u] = "succeeded"]
    /\ UNCHANGED << pipeline, actionState, stackVars, handlerVars, loggingVars >>

\* A variant in which the failure of a scope stops the other scopes of the action.
ScopeFailsAndAborts(actionName, u) ==
    /\ scopeState[actionName][u] = "running"
    /\ scopeState' = [scopeState EXCEPT ![actionName] =
                         [v \in DOMAIN @ |-> IF v = u THEN "failed"
                                             ELSE IF @[v] = "running" THEN "aborted" ELSE @[v]]]
    /\ UNCHANGED << pipeline, actionState, stackVars, handlerVars, loggingVars >>

\* The run of an action in one scope fails; the other scopes go on.
ScopeFails(actionName, u) ==
    /\ scopeState[actionName][u] = "running"
    /\ scopeState' = [scopeState EXCEPT ![actionName][u] = "failed"]
    /\ UNCHANGED << pipeline, actionState, stackVars, handlerVars, loggingVars >>

\* The outcome of an action whose scopes are all over.
ActionResult(actionName) ==
    IF \E u \in DOMAIN scopeState[actionName] : scopeState[actionName][u] # "succeeded"
    THEN "failed"
    ELSE "succeeded"

\* An action ends when its run has ended in every scope.
CompleteAction(actionName) ==
    /\ actionState[actionName] = "running"
    /\ \A u \in DOMAIN scopeState[actionName] : scopeState[actionName][u] # "running"
    /\ actionState' = [actionState EXCEPT ![actionName] = ActionResult(actionName)]
    /\ UNCHANGED << pipeline, scopeState, stackVars, handlerVars, loggingVars >>

PipelineInit ==
    /\ cfg = NetworkConfig(<<>>, <<>>, <<>>, <<>>, <<>>, <<>>)
    /\ dxPublishes = FALSE
    /\ scopeIdx = 0
    /\ pc = "idle"
    /\ stack = NoScope
    /\ peeringList = <<>>
    /\ crossAcctRouteProvider = FALSE
    /\ prefixListMap = EmptyMap
    /\ routeTableMap = EmptyMap
    /\ transitGateways = EmptyMap
    /\ transitGatewayRouteTables = EmptyMap
    /\ transitGatewayAttachments = EmptyMap
    /\ dxGatewayMap = EmptyMap
    /\ vpcMap = EmptyMap
    /\ subnetMap = EmptyMap
    /\ gwlbMap = EmptyMap
    /\ targetGroupMap = EmptyMap
    /\ firewallMap = EmptyMap
    /\ nfwPolicyMap = EmptyMap
    /\ dnsFirewallMap = EmptyMap
    /\ queryLogMap = EmptyMap
    /\ resolverRuleMap = EmptyMap
    /\ emitted = <<>>
    /\ err = NoErr
    /\ results = <<>>
    /\ NoPipeline
    /\ NoInvocations
    /\ NoExclusions

PipelineNext ==
    \/ ConstructPipeline
    \/ StartActions
    \/ \E n \in DOMAIN scopeState : \E u \in DOMAIN scopeState[n] : ScopeSucceeds(n, u)
    \/ \E n \in DOMAIN scopeState : \E u \in DOMAIN scopeState[n] : ScopeFails(n, u)
    \/ \E n \in DOMAIN actionState : CompleteAction(n)

PipelineSpec == PipelineInit /\ [][PipelineNext]_vars


Started(actionName) == actionState[actionName] # "pending"

\* `P` holds of every action that runs ahead of the `j`th action of stage `i`:
\* the actions of the earlier stages and those of stage `i` with a lower run
\* order.
EarlierAll(i, j, P(_)) ==
    \A k \in 1..i : \A l \in 1..Len(pipeline[k].actions) :
        (k < i \/ pipeline[k].actions[l].runOrder < pipeline[i].actions[j].runOrder)
        => P(pipeline[k].actions[l].actionName)

NoScopeFailed(actionName) ==
    \A u \in DOMAIN scopeState[actionName] : scopeState[actionName][u] # "failed"

\* The action has succeeded, and so has its run in each of its scopes.
Completed(actionName) ==
    /\ actionState[actionName] = "succeeded"
    /\ \A u \in DOMAIN scopeState[actionName] : scopeState[actionName][u] = "succeeded"

StageOrder ==
    << {"Prepare"}, {"Accounts"}, {"Bootstrap"}, {"Key"}, {"Logging"}, {"Organizations"},
       {"SecurityAudit"}, {"Network_Prepare", "Security", "Operations"},
       {"Network_VPCs", "Security_Resources"}, {"Network_Associations"}, {"Customizations"},
       {"Finalize"} >>

\* C15: the pipeline has an action for each deployment stage, and a stage has
\* started only if every stage of every earlier group of the order Prepare,
\* Accounts, Bootstrap, Key, Logging, Organizations, SecurityAudit,
\* {Network-Prepare, Security, Operations}, {Network-VPC, Security-Resources},
\* Network-Associations, Customizations, Finalize has succeeded.
C15_StagesInOrder ==
    pipeline # <<>> =>
        /\ \A i \in 1..Len(StageOrder) : StageOrder[i] \subseteq DOMAIN actionState
        /\ \A i, j \in 1..Len(StageOrder) :
               i < j => \A a \in StageOrder[i], b \in StageOrder[j] :
                            Started(b) => actionState[a] = "succeeded"

\* Two stages of one group run at the same time, after the stages of the
\* groups before them succeeded.
C15_Witness ==
    /\ pipeline # <<>>
    /\ \E u \in DOMAIN scopeState["Network_VPCs"], v \in DOMAIN scopeState["Security_Resources"] :
           /\ scopeState["Network_VPCs"][u] = "running"
           /\ scopeState["Security_Resources"][v] = "running"
    /\ actionState["Key"] = "succeeded"
    /\ actionState["Logging"] = "succeeded"

C17_FailureStopsOneScopeOnly ==
    /\ [][\A n \in DOMAIN scopeState : \A u, v \in DOMAIN scopeState[n] :
              (scopeState[n][u] = "running" /\ scopeState'[n][u] = "failed" /\ v # u)
              => scopeState'[n][v] = scopeState[n][v]]_vars
    /\ [](\A n \in DOMAIN scopeState : \A u \in DOMAIN scopeState[n] :
              /\ scopeState[n][u] \in {"idle", "running", "succeeded", "failed"}
              /\ scopeState[n][u] = "running" => actionState[n] = "running")

\* A scope of Network_VPCs failed while another was running, and that other
\* scope has since succeeded.
C17_Witness ==
    /\ pipeline # <<>>
    /\ actionState["Network_VPCs"] = "failed"
    /\ \E u, v \in DOMAIN scopeState["Network_VPCs"] :
           /\ scopeState["Network_VPCs"][u] = "failed"
           /\ scopeState["Network_VPCs"][v] = "succeeded"


\* A write to the publication store: a parameter the stack creates in its own
\* account and region, or one it puts in another account.
IsPublication(e) == e.type \in {"SsmParameter", "PutSsmParameter"}

\* The key written: the account and region of the store and the parameter name.
StoreKey(e) == << e.owner, e.region, e.key >>

CentralVpc(name, account, region, dns, logs, rules) ==
    [EndpointVpc(name, account, region, <<"A">>, <<>>)
        EXCEPT !.dnsFirewallRuleGroups = dns, !.queryLogs = logs, !.resolverRules = rules]

\* Configurations of two VPCs that use the rule group, query log configuration,
\* resolver rule and firewall policy of the delegated administrator account.
CentralConfigs ==
    { [NetworkConfig(<< CentralVpc("Inspection", "Network", "us-east-1", << [name |-> "Block"] >>,
                                   <<"Queries">>, <<"Forward">>),
                        CentralVpc("Spoke", account, region, dns, logs, rules) >>,
                     <<>>, <<>>, <<>>, <<>>, <<>>)
         EXCEPT !.centralNetworkServices =
                    [CentralNetworkServices(admin, <<>>,
                                            << Firewall("Fw", "Inspection", <<"A">>, "Policy"),
                                               Firewall("FwSpoke", "Spoke", <<"A">>, "Policy") >>)
                        EXCEPT !.route53Resolver.queryLogs.destinations = destinations]] :
        account \in AccountNames, region \in Regions, admin \in AccountNames,
        dns \in { <<>>, << [name |-> "Block"] >> },
        logs \in { <<>>, <<"Queries">> },
        rules \in { <<>>, <<"Forward">> },
        destinations \in { <<"s3">>, <<"s3", "cloud-watch-logs">> } }

CentralInit ==
    /\ cfg \in CentralConfigs
    /\ dxPublishes = FALSE
    /\ scopeIdx = 0
    /\ pc = "idle"
    /\ stack = NoScope
    /\ peeringList = <<>>
    /\ crossAcctRouteProvider = FALSE
    /\ prefixListMap = EmptyMap
    /\ routeTableMap = EmptyMap
    /\ transitGateways = EmptyMap
    /\ transitGatewayRouteTables = EmptyMap
    /\ transitGatewayAttachments = EmptyMap
    /\ dxGatewayMap = EmptyMap
    /\ vpcMap = EmptyMap
    /\ subnetMap = EmptyMap
    /\ gwlbMap = EmptyMap
    /\ targetGroupMap = EmptyMap
    /\ firewallMap = EmptyMap
    /\ nfwPolicyMap = EmptyMap
    /\ dnsFirewallMap = EmptyMap
    /\ queryLogMap = EmptyMap
    /\ resolverRuleMap = EmptyMap
    /\ emitted = <<>>
    /\ err = NoErr
    /\ results = <<>>
    /\ NoPipeline
    /\ NoInvocations
    /\ NoExclusions

\* Each scope builds its NetworkAssociationsStack, or its
\* NetworkVpcEndpointsStack and NetworkAssociationsGwlbStack.
CentralNext ==
    \/ Next
    \/ EndpointsNext

CentralSpec == CentralInit /\ [][CentralNext]_vars

\* A construct that uses the identifier of a resource of the delegated
\* administrator account.
IsSharedUse(e) ==
    e.type \in {"ResolverFirewallRuleGroupAssociation", "QueryLoggingConfigAssociation",
                "ResolverRuleAssociation", "NetworkFirewall"}

IsShareLookup(e) == e.type = "ResourceShareLookup"

EntityTypeOf(e) == IF e.type = "NetworkFirewall" THEN "firewallPolicy" ELSE e.src

\* The two constructs are about the same (scope, entity type, name).
SameEntity(e, f) ==
    /\ e.scope = f.scope
    /\ EntityTypeOf(e) = EntityTypeOf(f)
    /\ e.key = f.key

\* C19: in one scope a rule group, query log configuration, resolver rule or
\* firewall policy is looked up at most once; every construct that uses it
\* carries the same identifier, the one the lookup returned before the
\* construct was created.
C19_ResolvedOncePerScope ==
    \A i, j \in 1..Len(emitted) :
        SameEntity(emitted[i], emitted[j]) =>
            /\ (IsShareLookup(emitted[i]) /\ IsShareLookup(emitted[j])) => i = j
            /\ (IsSharedUse(emitted[i]) /\ IsSharedUse(emitted[j])) => emitted[i].att = emitted[j].att
            /\ (IsShareLookup(emitted[i]) /\ IsSharedUse(emitted[j]))
               => i < j /\ emitted[j].att = emitted[i].att

\* Two VPCs of one scope use the same rule group, looked up once in the
\* resource share before the two associations were created.
C19_Witness ==
    \E i, j, k \in 1..Len(emitted) :
        /\ i < j /\ j < k
        /\ IsShareLookup(emitted[i])
        /\ emitted[j].type = "ResolverFirewallRuleGroupAssociation"
        /\ emitted[k].type = "ResolverFirewallRuleGroupAssociation"
        /\ SameEntity(emitted[i], emitted[j])
        /\ SameEntity(emitted[i], emitted[k])

\* The resource type a resource share is searched for, and the name of the share.
ShareTypeOf(e) ==
    CASE EntityTypeOf(e) = "dnsFirewallRuleGroup" -> "route53resolver:FirewallRuleGroup"
      [] EntityTypeOf(e) = "queryLogs" -> "route53resolver:ResolverQueryLogConfig"
      [] EntityTypeOf(e) = "resolverRules" -> "route53resolver:ResolverRule"
      [] OTHER -> "network-firewall:FirewallPolicy"

ShareNameOf(e) ==
    CASE EntityTypeOf(e) = "dnsFirewallRuleGroup" -> e.key \o "_ResolverFirewallRuleGroupShare"
      [] EntityTypeOf(e) = "queryLogs" -> e.key \o "_QueryLogConfigShare"
      [] EntityTypeOf(e) = "resolverRules" -> e.key \o "_ResolverRule"
      [] OTHER -> e.key \o "_NetworkFirewallPolicyShare"

\* C20: a construct that uses a rule group, query log configuration,
\* resolver rule or firewall policy carries the value of a parameter of its
\* own account and region when its stack is in the delegated administrator
\* account, and otherwise the item of the resource share of that account with
\* the share name and resource type of the entity; no cross-account parameter
\* lookup is created for it.
C20_LocalOrResourceShare ==
    \A i \in 1..Len(emitted) :
        /\ IsSharedUse(emitted[i]) =>
               IF emitted[i].scope.account = DelegatedAdminAccountId
               THEN /\ emitted[i].att.via = "ssm"
                    /\ emitted[i].att.account = emitted[i].scope.account
                    /\ emitted[i].att.region = emitted[i].scope.region
               ELSE /\ emitted[i].att.via = "resourceShare"
                    /\ emitted[i].att.account = DelegatedAdminAccountId
                    /\ emitted[i].att.detail = ShareTypeOf(emitted[i])
                    /\ emitted[i].att.name = ShareNameOf(emitted[i])
        /\ emitted[i].type = "SsmParameterLookup" =>
               emitted[i].src \notin {"dnsFirewallRuleGroup", "queryLogs", "resolverRules",
                                      "firewallPolicy"}
        /\ IsShareLookup(emitted[i]) => emitted[i].scope.account # DelegatedAdminAccountId

\* Stacks of the delegated administrator account and of another account have
\* each associated a resolver rule, a query log configuration and a rule
\* group, or created a firewall.
C20_Witness ==
    \E i, j \in 1..Len(emitted) :
        /\ IsSharedUse(emitted[i])
        /\ IsSharedUse(emitted[j])
        /\ emitted[i].att.via = "ssm"
        /\ emitted[j].att.via = "resourceShare"
        /\ \E k \in 1..Len(emitted) : emitted[k].type = "ResolverRuleAssociation"
        /\ \E k \in 1..Len(emitted) : emitted[k].type = "QueryLoggingConfigAssociation"


\* ------------------------------------------------------------------ custom resource handlers
\* Number of invocations of the handlers in one process.
MaxInvocations == 2

\* Number of attempts throttlingBackOff makes before it gives up.
MaxAttempts == 3

RequestTypes == {"Create", "Update", "Delete"}

Partitions == {"aws", "aws-us-gov", "aws-cn"}

\* How a remote call ends: with a response, with a rate-limiting error or with
\* another error.
CallOutcomes == {"ok", "throttled", "error"}

\* The region of the Organizations client of describe-organization.
OrganizationsRegion(partition) ==
    IF partition = "aws-us-gov" THEN "us-gov-west-1"
    ELSE IF partition = "aws-cn" THEN "cn-northwest-1"
    ELSE "us-east-1"

IsThrottlingError(outcome) == outcome = "throttled"

\* throttlingBackOff(request) after an attempt ended: the promise resolves with
\* the response, the request is sent again after a delay, or the promise
\* rejects with the error of the attempt.
ThrottlingBackOff(outcome, attempts) ==
    IF outcome = "ok" THEN "resolve"
    ELSE IF IsThrottlingError(outcome) /\ attempts < MaxAttempts THEN "retry"
    ELSE "reject"

\* An invocation ends: the handler returned a response or threw.
EndInvocation(handler, status, error, attempts, ownErrors, puts) ==
    invocations' = Append(invocations,
                          [handler |-> handler, status |-> status, error |-> error,
                           calls |-> attempts, ownErrors |-> ownErrors, puts |-> puts])

validateVars == << validationErrors, orgAccountsToAdd, ctAccountsToAdd, awsOuKeys,
                   newOrgAccountsTable, newCTAccountsTable >>

\* describe-organization is invoked: Create and Update send describeOrganization
\* through throttlingBackOff, Delete returns at once.
DescribeOrganizationHandler ==
    /\ invocation = NoInvocation
    /\ Len(invocations) < MaxInvocations
    /\ \E requestType \in RequestTypes, partition \in Partitions :
           IF requestType \in {"Create", "Update"}
           THEN /\ invocation' = [handler |-> "describe-organization",
                                  requestType |-> requestType,
                                  region |-> OrganizationsRegion(partition)]
                /\ calls' = <<>>
                /\ UNCHANGED invocations
           ELSE /\ EndInvocation("describe-organization", "SUCCESS", "none", <<>>, 0, <<>>)
                /\ calls' = <<>>
                /\ UNCHANGED invocation
    /\ UNCHANGED << stackVars, pipelineVars, loggingVars, validateVars >>

\* A rejected throttlingBackOff promise would be awaited again.
AwaitRetriesRejected(decision) == IF decision = "resolve" THEN "return" ELSE "retry"

\* `const response = await throttlingBackOff(...)` outside any try block: the
\* handler returns the response, waits while the request is retried, or
\* throws what the promise rejected with.
AwaitDescribeOrganization(decision) ==
    IF decision = "resolve" THEN "return"
    ELSE IF decision = "retry" THEN "retry"
    ELSE "throw"

\* The describeOrganization call in flight ends.
DescribeOrganizationReturns ==
    /\ invocation # NoInvocation
    /\ \E outcome \in CallOutcomes :
           LET attempts == Append(calls, outcome)
               next == AwaitDescribeOrganization(ThrottlingBackOff(outcome, Len(attempts)))
           IN  /\ calls' = attempts
               /\ IF next = "retry"
                  THEN UNCHANGED << invocation, invocations >>
                  ELSE /\ invocation' = NoInvocation
                       /\ IF next = "return"
                          THEN EndInvocation("describe-organization", "SUCCESS", "none", attempts, 0, <<>>)
                          ELSE EndInvocation("describe-organization", "FAILED", outcome, attempts, 0, <<>>)
    /\ UNCHANGED << stackVars, pipelineVars, loggingVars, validateVars >>


\* ------------------------------------------------------------------ validate-environment
\* The module-level arrays and the tables while the handler runs; own counts
\* the errors pushed and puts the items written by this invocation.
Handler ==
    [validationErrors |-> validationErrors, orgAccountsToAdd |-> orgAccountsToAdd,
     ctAccountsToAdd |-> ctAccountsToAdd, awsOuKeys |-> awsOuKeys,
     newOrgAccountsTable |-> newOrgAccountsTable, newCTAccountsTable |-> newCTAccountsTable,
     own |-> 0, puts |-> <<>>, err |-> NoErr]

\* validationErrors.push(...errors)
PushErrors(h, errors) ==
    [h EXCEPT !.validationErrors = @ \o errors, !.own = @ + Len(errors)]

PushError(h, kind, name) == PushErrors(h, << [kind |-> kind, name |-> name] >>)

\* array.find(test) is not undefined.
Found(s, Test(_)) == SelectSeq(s, Test) # <<>>

\* array.find(test): the first element that passes.
FindFirst(s, Test(_)) == SelectSeq(s, Test)[1]

\* getConfigOuKeys: the organizational units of the configuration table and
\* the root.
GetConfigOuKeys(env) ==
    Append(env.configOus,
           [acceleratorKey |-> "Root", awsKey |-> env.rootId, registered |-> TRUE, ignore |-> FALSE])

\* configAllOuKeys, assigned in every invocation: organizationsEnabled is set
\* in the events of the model.
ConfigAllOuKeys(env) == GetConfigOuKeys(env)

ConfigActiveOuKeys(env) == SelectSeq(ConfigAllOuKeys(env), LAMBDA item : item.ignore = FALSE)

ConfigIgnoredOuKeys(env) == SelectSeq(ConfigAllOuKeys(env), LAMBDA item : item.ignore = TRUE)

\* listAccountsForParent for the units that have an id.
AccountsOfUnits(env, organizationalUnitKeys) ==
    SelectSeq(env.accounts,
              LAMBDA account : \E i \in 1..Len(organizationalUnitKeys) :
                                   /\ organizationalUnitKeys[i].awsKey # Undefined
                                   /\ organizationalUnitKeys[i].awsKey = account.Parent)

\* getOrganizationAccounts: the accounts of the active units; a unit without
\* an id is recorded as an error.
OrganizationAccounts(env) == AccountsOfUnits(env, ConfigActiveOuKeys(env))

GetOrganizationAccounts(h, env) ==
    ForEach(LAMBDA u, ouKey : IF ouKey.awsKey = Undefined
                              THEN PushError(u, "OrganizationalUnitNotFound", ouKey.acceleratorKey)
                              ELSE u,
            h, ConfigActiveOuKeys(env))

\* acceleratorKey.split('/').length >>> 1: zero for a top level unit.
IsNestedOu(ouKey) == ouKey.nested

\* validateOrganizationalUnitsAreRegistered
ValidateOrganizationalUnitsAreRegistered(h, env) ==
    LET deregistered ==
            ForEach(LAMBDA u, item : IF item.registered = FALSE
                                     THEN PushError(u, "OrganizationalUnitNotRegistered", item.acceleratorKey)
                                     ELSE u,
                    h, ConfigActiveOuKeys(env))
    IN  ForEach(LAMBDA u, ouKey :
                    IF ouKey.registered = TRUE \/ ouKey.awsKey = Undefined \/ IsNestedOu(ouKey)
                    THEN u
                    ELSE IF ~env.guardRailAttached
                         THEN PushError(u, "NoGuardrailAttached", ouKey.acceleratorKey)
                         ELSE u,
                deregistered, ConfigActiveOuKeys(env))

\* The loop of validateControlTower over the workload accounts.
ValidateProvisionedAccount(h, env, workloadAccount) ==
    LET ByName(pcta) == pcta.Name = workloadAccount.name
        ByEmail(oa) == oa.Email = workloadAccount.acceleratorKey
        provisioned == FindFirst(env.provisioned, ByName)
        checkAccountId == FindFirst(OrganizationAccounts(env), ByEmail)
    IN  IF Found(env.provisioned, ByName)
        THEN IF provisioned.Status = "TAINTED"
             THEN PushError(h, "AccountTainted", workloadAccount.acceleratorKey)
             ELSE IF provisioned.Status = "ERROR"
                  THEN PushError(h, "AccountInError", workloadAccount.acceleratorKey)
                  ELSE h
        ELSE IF Found(OrganizationAccounts(env), ByEmail)
             THEN LET ById(pcta) == pcta.PhysicalId = checkAccountId.Id
                      byId == FindFirst(env.provisioned, ById)
                  IN  IF ~Found(env.provisioned, ById)
                      THEN [h EXCEPT !.ctAccountsToAdd = Append(@, workloadAccount)]
                      ELSE IF byId.Status \in {"TAINTED", "ERROR"}
                           THEN PushError(h, "AccountInError", workloadAccount.acceleratorKey)
                           ELSE h
             ELSE [h EXCEPT !.ctAccountsToAdd = Append(@, workloadAccount)]

\* validateControlTower
ValidateControlTower(h, env) ==
    LET mandatory ==
            ForEach(LAMBDA u, mandatoryAccount :
                        LET ByEmail(item) == item.Email = mandatoryAccount.acceleratorKey
                            existing == FindFirst(OrganizationAccounts(env), ByEmail)
                        IN  IF Found(OrganizationAccounts(env), ByEmail) /\ existing.Status = "ACTIVE"
                            THEN u
                            ELSE PushError(u, "MandatoryAccountMissing", mandatoryAccount.acceleratorKey),
                    h, env.mandatoryAccounts)
        registered == ValidateOrganizationalUnitsAreRegistered(mandatory, env)
        drift == IF env.driftDetected THEN PushError(registered, "ControlTowerDrift", "") ELSE registered
    IN  ForEach(LAMBDA u, workloadAccount : ValidateProvisionedAccount(u, env, workloadAccount),
                drift, env.workloadAccounts)

\* validateAllOuInConfig: every unit found in the organization, in this or an
\* earlier invocation, is in the configuration.
ValidateAllOuInConfig(h, env) ==
    ForEach(LAMBDA u, ouKeys :
                IF Found(ConfigAllOuKeys(env),
                         LAMBDA item : item.acceleratorKey = ouKeys.acceleratorKey)
                THEN u
                ELSE PushError(u, "OrganizationalUnitNotInConfig", ouKeys.acceleratorKey),
            h, h.awsOuKeys)

\* validateOrganizationalUnitsExist
ValidateOrganizationalUnitsExist(h, env) ==
    ForEach(LAMBDA u, item : IF item.awsKey = Undefined
                             THEN PushError(u, "OrganizationalUnitNotInAws", item.acceleratorKey)
                             ELSE u,
            h, ConfigActiveOuKeys(env))

\* validateAccountsInOu: every account of an active unit is configured, and
\* configured for that unit.
ValidateAccountsInOu(h, env) ==
    LET accountKeys == env.mandatoryAccounts \o env.workloadAccounts
    IN  ForEach(LAMBDA u, ou :
                    IF ou.awsKey = Undefined
                    THEN u
                    ELSE ForEach(LAMBDA w, child :
                                     LET ById(item) == item.awsKey = child.Id
                                         account == FindFirst(accountKeys, ById)
                                     IN  IF ~Found(accountKeys, ById)
                                         THEN PushError(w, "AccountNotInConfiguration", child.Id)
                                         ELSE IF account.ouName # ou.acceleratorKey
                                              THEN PushError(w, "AccountInWrongOu", account.acceleratorKey)
                                              ELSE w,
                                 u, AccountsOfUnits(env, << ou >>)),
                h, ConfigActiveOuKeys(env))

\* validateAllAwsAccountsInConfig
ValidateAllAwsAccountsInConfig(h, env) ==
    ForEach(LAMBDA u, account :
                IF \/ Found(env.workloadAccounts, LAMBDA item : item.acceleratorKey = account.Email)
                   \/ Found(env.mandatoryAccounts, LAMBDA item : item.acceleratorKey = account.Email)
                THEN u
                ELSE IF ~Found(ConfigIgnoredOuKeys(env), LAMBDA item : item.awsKey = account.Parent)
                     THEN PushError(u, "AccountNotInAccountsConfig", account.Id)
                     ELSE u,
            h, OrganizationAccounts(env))


\* The accounts of the configuration that are not in the organization are
\* pushed to orgAccountsToAdd; an account that is there but not active is an
\* error.
AccountToAdd(h, env, account, kind) ==
    LET ByOuName(ouKeyItem) == ouKeyItem.acceleratorKey = account.ouName
        ByEmail(item) == item.Email = account.acceleratorKey
    IN  IF Found(ConfigAllOuKeys(env), ByOuName) /\ FindFirst(ConfigAllOuKeys(env), ByOuName).ignore = FALSE
        THEN IF Found(OrganizationAccounts(env), ByEmail)
             THEN IF FindFirst(OrganizationAccounts(env), ByEmail).Status # "ACTIVE"
                  THEN PushError(h, kind, account.acceleratorKey)
                  ELSE h
             ELSE IF kind = "MandatoryAccountNotActive"
                     \/ env.controlTowerEnabled = "false" \/ account.enableGovCloud
                  THEN [h EXCEPT !.orgAccountsToAdd = Append(@, account)]
                  ELSE h
        ELSE h

FindAccountsToAdd(h, env) ==
    LET mandatory ==
            IF env.controlTowerEnabled = "false"
            THEN ForEach(LAMBDA u, mandatoryAccount :
                             AccountToAdd(u, env, mandatoryAccount, "MandatoryAccountNotActive"),
                         h, env.mandatoryAccounts)
            ELSE h
    IN  ForEach(LAMBDA u, workloadAccount :
                    AccountToAdd(u, env, workloadAccount, "WorkloadAccountNotActive"),
                mandatory, env.workloadAccounts)

\* PutCommand: the item replaces the item of the same accountEmail.
PutItem(table, item) == {i \in table : i.accountEmail # item.accountEmail} \cup {item}

\* getOuName: the last segment of the unit's path.
GetOuName(account) == account.ouLeaf

\* put accounts to create in DynamoDb: the loop over orgAccountsToAdd.
PutOrgAccount(h, env, account) ==
    LET ByOuName(item) == item.acceleratorKey = account.ouName
        active == ConfigActiveOuKeys(env)
    IN  IF Found(active, ByOuName) /\ FindFirst(active, ByOuName).awsKey # Undefined
        THEN LET item == [accountEmail |-> account.acceleratorKey,
                          organizationalUnitId |-> FindFirst(active, ByOuName).awsKey]
             IN  [h EXCEPT !.newOrgAccountsTable = PutItem(@, item),
                           !.puts = Append(@, [table |-> "newOrgAccounts", item |-> item])]
        ELSE PushError(h, "UnableToFindOrganizationalUnit", account.ouName)

\* The loop over ctAccountsToAdd.
PutCtAccount(h, env, account) ==
    LET ByOuName(item) == item.acceleratorKey = account.ouName
        active == ConfigActiveOuKeys(env)
    IN  IF Found(active, ByOuName) /\ FindFirst(active, ByOuName).awsKey # Undefined
        THEN LET item == [accountEmail |-> account.acceleratorKey,
                          organizationalUnitId |->
                              GetOuName(account) \o " (" \o FindFirst(active, ByOuName).awsKey \o ")"]
             IN  [h EXCEPT !.newCTAccountsTable = PutItem(@, item),
                           !.puts = Append(@, [table |-> "newCTAccounts", item |-> item])]
        ELSE PushError(h, "UnableToFindOrganizationalUnit", account.ouName)

PutAccountsToAdd(h, env) ==
    LET org == ForEach(LAMBDA u, account : PutOrgAccount(u, env, account), h, h.orgAccountsToAdd)
    IN  ForEach(LAMBDA u, account : PutCtAccount(u, env, account), org, org.ctAccountsToAdd)

\* The Create and Update branch of the handler after the rollback test, up to
\* the test of validationErrors.
ValidateEnvironment(h, env) ==
    LET ous == [h EXCEPT !.awsOuKeys = @ \o env.awsOus]
        accounts == GetOrganizationAccounts(ous, env)
        controlTower == IF env.controlTowerEnabled = "true"
                        THEN ValidateControlTower(accounts, env)
                        ELSE accounts
        allOuInConfig == ValidateAllOuInConfig(controlTower, env)
        unitsExist == ValidateOrganizationalUnitsExist(allOuInConfig, env)
        accountsInOu == ValidateAccountsInOu(unitsExist, env)
        allInConfig == ValidateAllAwsAccountsInConfig(accountsInOu, env)
        toAdd == FindAccountsToAdd(allInConfig, env)
    IN  PutAccountsToAdd(toAdd, env)

\* The environments the handler is invoked in: one organizational unit with
\* one workload account, and the management account under the root.
Environments ==
    { [stackInRollback |-> rollback, controlTowerEnabled |-> controlTower, rootId |-> "r-1",
       configOus |-> << [acceleratorKey |-> "Workloads", awsKey |-> ouId, registered |-> TRUE,
                         ignore |-> FALSE, nested |-> FALSE] >>,
       awsOus |-> << [acceleratorKey |-> "Workloads", awsKey |-> "ou-w"] >>,
       accounts |-> << [Id |-> "a-m", Email |-> "management", Status |-> "ACTIVE", Parent |-> "r-1"] >>
                    \o workload,
       mandatoryAccounts |-> << [acceleratorKey |-> "management", awsKey |-> "a-m", ouName |-> "Root",
                                 ouLeaf |-> "Root", name |-> "Management", enableGovCloud |-> FALSE] >>,
       workloadAccounts |-> << [acceleratorKey |-> "workload", awsKey |-> "a-w", ouName |-> "Workloads",
                                ouLeaf |-> "Workloads", name |-> "Workload", enableGovCloud |-> FALSE] >>,
       provisioned |-> provisioned, driftDetected |-> drift, guardRailAttached |-> TRUE] :
        rollback \in BOOLEAN, controlTower \in {"true", "false"}, ouId \in {"ou-w", Undefined},
        drift \in BOOLEAN,
        workload \in { <<>> } \cup
                     { << [Id |-> "a-w", Email |-> "workload", Status |-> status, Parent |-> "ou-w"] >> :
                         status \in {"ACTIVE", "SUSPENDED"} },
        provisioned \in { <<>>, << [Name |-> "Workload", PhysicalId |-> "a-w", Status |-> "ERROR"] >> } }

\* validate-environment is invoked and runs to its end.
ValidateEnvironmentHandler ==
    /\ invocation = NoInvocation
    /\ Len(invocations) < MaxInvocations
    /\ \E requestType \in RequestTypes, env \in Environments :
           IF requestType = "Delete" \/ env.stackInRollback
           THEN /\ EndInvocation("validate-environment", "SUCCESS", "none", <<>>, 0, <<>>)
                /\ UNCHANGED validateVars
           ELSE LET h == ValidateEnvironment(Handler, env)
                IN  /\ validationErrors' = h.validationErrors
                    /\ orgAccountsToAdd' = h.orgAccountsToAdd
                    /\ ctAccountsToAdd' = h.ctAccountsToAdd
                    /\ awsOuKeys' = h.awsOuKeys
                    /\ newOrgAccountsTable' = h.newOrgAccountsTable
                    /\ newCTAccountsTable' = h.newCTAccountsTable
                    /\ IF Len(h.validationErrors) > 0
                       THEN EndInvocation("validate-environment", "FAILED",
                                          "validation", <<>>, h.own, h.puts)
                       ELSE EndInvocation("validate-environment", "SUCCESS",
                                          "none", <<>>, h.own, h.puts)
    /\ UNCHANGED << stackVars, pipelineVars, loggingVars, invocation, calls >>

HandlerInit ==
    /\ cfg = NetworkConfig(<<>>, <<>>, <<>>, <<>>, <<>>, <<>>)
    /\ dxPublishes = FALSE
    /\ scopeIdx = 0
    /\ pc = "idle"
    /\ stack = NoScope
    /\ peeringList = <<>>
    /\ crossAcctRouteProvider = FALSE
    /\ prefixListMap = EmptyMap
    /\ routeTableMap = EmptyMap
    /\ transitGateways = EmptyMap
    /\ transitGatewayRouteTables = EmptyMap
    /\ transitGatewayAttachments = EmptyMap
    /\ dxGatewayMap = EmptyMap
    /\ vpcMap = EmptyMap
    /\ subnetMap = EmptyMap
    /\ gwlbMap = EmptyMap
    /\ targetGroupMap = EmptyMap
    /\ firewallMap = EmptyMap
    /\ nfwPolicyMap = EmptyMap
    /\ dnsFirewallMap = EmptyMap
    /\ queryLogMap = EmptyMap
    /\ resolverRuleMap = EmptyMap
    /\ emitted = <<>>
    /\ err = NoErr
    /\ results = <<>>
    /\ NoPipeline
    /\ NoInvocations
    /\ NoExclusions

HandlerNext ==
    \/ DescribeOrganizationHandler
    \/ DescribeOrganizationReturns
    \/ ValidateEnvironmentHandler

HandlerSpec == HandlerInit /\ [][HandlerNext]_vars


\* In a list of the attempts of one request, an attempt that ended with an
\* error other than rate limiting is the last one, and every attempt after the
\* first follows an attempt that was rate limited.
RetriedOnlyWhenThrottled(attempts) ==
    /\ \A i \in 1..Len(attempts) : attempts[i] = "error" => i = Len(attempts)
    /\ \A i \in 2..Len(attempts) : attempts[i - 1] = "throttled"

\* C21: a describeOrganization call that fails with an error other than rate
\* limiting is not sent again: the invocation ends at that attempt and throws
\* that error; a request is sent again only after a rate-limited attempt.
C21_NonThrottlingNotRetried ==
    /\ RetriedOnlyWhenThrottled(calls)
    /\ (calls # <<>> /\ calls[Len(calls)] = "error") => invocation = NoInvocation
    /\ \A k \in 1..Len(invocations) :
           invocations[k].handler = "describe-organization" =>
               /\ RetriedOnlyWhenThrottled(invocations[k].calls)
               /\ \A i \in 1..Len(invocations[k].calls) :
                      invocations[k].calls[i] = "error" =>
                          invocations[k].status = "FAILED" /\ invocations[k].error = "error"

\* An invocation was rate limited, sent the request again, and threw the
\* error of the second attempt.
C21_Witness ==
    \E k \in 1..Len(invocations) :
        /\ invocations[k].handler = "describe-organization"
        /\ invocations[k].calls = <<"throttled", "error">>
        /\ invocations[k].status = "FAILED"


\* C28: an invocation of validate-environment in which no check recorded an
\* error returns SUCCESS, whatever earlier invocations of the process recorded.
C28_ErrorsNotVisibleLater ==
    \A k \in 1..Len(invocations) :
        (invocations[k].handler = "validate-environment" /\ invocations[k].ownErrors = 0)
            => invocations[k].status = "SUCCESS"

\* C29: an invocation of validate-environment that ends with a validation
\* error has put no item in the new-accounts tables.
C29_NoWriteWhenValidationFails ==
    \A k \in 1..Len(invocations) :
        (invocations[k].handler = "validate-environment" /\ invocations[k].status = "FAILED")
            => invocations[k].puts = <<>>


\* ------------------------------------------------------------------ the kinds of a static route
\* Route entries of every kind, with entries that are a blackhole and have an
\* attachment, that have an attachment of two shapes, and that have neither a
\* blackhole flag nor an attachment.
RouteKindPool ==
    { TgwRoute("10.0.0.0/8", Undefined, TRUE, NoAttachment),
      TgwRoute("10.1.0.0/16", Undefined, FALSE, VpcAttachment("Network", "Endpoints")),
      TgwRoute("10.3.0.0/16", Undefined, FALSE, DxAttachment("OnPrem")),
      TgwRoute("10.4.0.0/16", Undefined, FALSE, VpnAttachment("Branch")),
      TgwRoute("10.5.0.0/16", Undefined, FALSE, PeeringAttachment("MainToEdge")),
      TgwRoute("10.7.0.0/16", Undefined, FALSE,
               Attachment({"vpcName"}, Undefined, "Endpoints", Undefined, Undefined, Undefined)),
      TgwRoute("10.8.0.0/16", Undefined, TRUE, VpcAttachment("Network", "Endpoints")),
      TgwRoute("10.9.0.0/16", Undefined, FALSE, NoAttachment),
      TgwRoute("10.10.0.0/16", Undefined, FALSE,
               Attachment({"directConnectGatewayName", "vpnConnectionName"}, Undefined, Undefined,
                          "OnPrem", "Branch", Undefined)) }


\* Configurations whose transit gateway Main has a VPC, a VPN connection and
\* a Direct Connect gateway attached and routes of the pool in its table.
RouteKindConfigs ==
    { NetworkConfig(<<v>>, <<>>, routes,
                    << Cgw("Office", "Network", "us-east-1",
                           << Vpn("Branch", "Main", <<"Core">>, <<"Core">>) >>) >>,
                    << Dxgw("OnPrem", "Network",
                            << DxAssociation("Main", "Network", <<"Core">>, <<"Core">>) >>) >>,
                    <<>>) :
        v \in {x \in TgwVpcPool : x.name = "Endpoints"},
        routes \in SeqsUpTo(RouteKindPool, MaxTgwRoutes) }

RouteKindInit ==
    /\ cfg \in RouteKindConfigs
    /\ dxPublishes \in BOOLEAN
    /\ scopeIdx = 0
    /\ pc = "idle"
    /\ stack = NoScope
    /\ peeringList = <<>>
    /\ crossAcctRouteProvider = FALSE
    /\ prefixListMap = EmptyMap
    /\ routeTableMap = EmptyMap
    /\ transitGateways = EmptyMap
    /\ transitGatewayRouteTables = EmptyMap
    /\ transitGatewayAttachments = EmptyMap
    /\ dxGatewayMap = EmptyMap
    /\ vpcMap = EmptyMap
    /\ subnetMap = EmptyMap
    /\ gwlbMap = EmptyMap
    /\ targetGroupMap = EmptyMap
    /\ firewallMap = EmptyMap
    /\ nfwPolicyMap = EmptyMap
    /\ dnsFirewallMap = EmptyMap
    /\ queryLogMap = EmptyMap
    /\ resolverRuleMap = EmptyMap
    /\ emitted = <<>>
    /\ err = NoErr
    /\ results = <<>>
    /\ NoPipeline
    /\ NoInvocations
    /\ NoExclusions

RouteKindSpec == RouteKindInit /\ [][Next]_vars

\* The route entries of the configuration with the destination of a static route.
RouteEntriesFor(e) ==
    SelectSeq(cfg.transitGateways[1].routeTables[1].routes,
              LAMBDA routeItem : routeItem.destinationCidrBlock = e.sub)

\* The kinds a route entry is of: a blackhole, and each shape its attachment has.
KindsOf(routeItem) ==
    (IF routeItem.blackhole THEN <<"blackhole">> ELSE <<>>) \o MatchedKinds(routeItem.attachment)

\* C22: every static route created is of exactly one of the kinds blackhole,
\* VPC, DX gateway, VPN and peering; a blackhole route carries no attachment
\* and a route of another kind carries the attachment identifier read for
\* that kind; no route is created for an entry of none of the kinds.
C22_ExactlyOneKind ==
    \A i \in 1..Len(emitted) :
        emitted[i].type = "TransitGatewayStaticRoute" =>
            \A k \in 1..Len(RouteEntriesFor(emitted[i])) :
                LET routeItem == RouteEntriesFor(emitted[i])[k]
                    kinds == KindsOf(routeItem)
                IN  /\ Len(kinds) = 1
                    /\ emitted[i].src = kinds[1]
                    /\ IF kinds[1] = "blackhole"
                       THEN emitted[i].att = NoId
                       ELSE /\ emitted[i].att # NoId
                            /\ emitted[i].key = RouteAttachmentKey(kinds[1], routeItem.attachment,
                                                                   cfg.transitGateways[1])


\* The names of the stages of a pipeline, in order.
StageNames(p) == [i \in 1..Len(p) |-> p[i].stageName]

\* The stages every pipeline has.
FixedStages ==
    << "Source", "Build", "Prepare", "Accounts", "Bootstrap", "Logging", "Organization",
       "SecurityAudit", "Deploy" >>

\* C23 as stated: every pipeline has the same sequence of stages.
C23_SameStagesInEveryRun == pipeline # <<>> => StageNames(pipeline) = FixedStages

\* C23: the stages other than Review are the same, in the same order, in
\* every pipeline; the Review stage, when the pipeline has it, comes right
\* after Bootstrap; and no step of an execution changes the stages.
C23_SameStagesButReview ==
    /\ [](pipeline # <<>> =>
            /\ SelectSeq(StageNames(pipeline), LAMBDA n : n # "Review") = FixedStages
            /\ \A i \in 1..Len(pipeline) :
                   pipeline[i].stageName = "Review" => pipeline[i - 1].stageName = "Bootstrap")
    /\ [][pipeline # <<>> => pipeline' = pipeline]_vars

\* An execution of a pipeline with the Review stage has passed it and has
\* started the Logging stage.
C23_Witness ==
    /\ pipeline # <<>>
    /\ \E i \in 1..Len(pipeline) : pipeline[i].stageName = "Review"
    /\ actionState["Approve"] = "succeeded"
    /\ actionState["Key"] # "pending"


\* ------------------------------------------------------------------ scenario: VPC Network-Endpoints
\* VPC Network-Endpoints of account Network in us-east-1 with a transit
\* gateway attachment to Network-Main of the same account and the route
\* table entry TgwRoute (0.0.0.0/0) to it.
NetworkEndpointsVpc(associations, propagations) ==
    Vpc("Network-Endpoints", FALSE, <<"Network">>, {}, "us-east-1",
        << [name |-> "Network-Endpoints-Rt",
            routes |-> << VpcRoute("TgwRoute", "transitGateway", "Network-Main", "0.0.0.0/0", Undefined) >>] >>,
        << TgwAttachment("Network-Endpoints", "Network-Main", "Network", associations, propagations) >>)

\* networkConfig.transitGateways of the scenario: with Network-Main, without
\* it, and without any transit gateway.
ScenarioTransitGateways ==
    { << Tgw("Network-Main", "Network", "us-east-1", <<>>) >>,
      << Tgw("Network-Main", "Network", "us-east-1", <<>>), Tgw("Second", "Network", "us-east-1", <<>>) >>,
      << Tgw("Second", "Network", "us-east-1", <<>>) >>,
      <<>> }

ScenarioConfigs ==
    { [NetworkConfig(<<NetworkEndpointsVpc(associations, propagations)>>, <<>>, <<>>, <<>>, <<>>, <<>>)
           EXCEPT !.transitGateways = tgws, !.transitGatewayPeering = <<>>] :
        associations \in {<<"Core">>}, propagations \in {<<>>, <<"Core">>},
        tgws \in ScenarioTransitGateways }

ScenarioInit ==
    /\ cfg \in ScenarioConfigs
    /\ dxPublishes = FALSE
    /\ scopeIdx = 0
    /\ pc = "idle"
    /\ stack = NoScope
    /\ peeringList = <<>>
    /\ crossAcctRouteProvider = FALSE
    /\ prefixListMap = EmptyMap
    /\ routeTableMap = EmptyMap
    /\ transitGateways = EmptyMap
    /\ transitGatewayRouteTables = EmptyMap
    /\ transitGatewayAttachments = EmptyMap
    /\ dxGatewayMap = EmptyMap
    /\ vpcMap = EmptyMap
    /\ subnetMap = EmptyMap
    /\ gwlbMap = EmptyMap
    /\ targetGroupMap = EmptyMap
    /\ firewallMap = EmptyMap
    /\ nfwPolicyMap = EmptyMap
    /\ dnsFirewallMap = EmptyMap
    /\ queryLogMap = EmptyMap
    /\ resolverRuleMap = EmptyMap
    /\ emitted = <<>>
    /\ err = NoErr
    /\ results = <<>>
    /\ NoPipeline
    /\ NoInvocations
    /\ NoExclusions

ScenarioSpec == ScenarioInit /\ [][Next]_vars

\* The configuration has transit gateway Network-Main.
HasNetworkMain == \E i \in 1..Len(cfg.transitGateways) : cfg.transitGateways[i].name = "Network-Main"

\* The stack of account Network in us-east-1.
NetworkScope == [account |-> GetAccountId("Network"), region |-> "us-east-1"]

\* The associations of VPC Network-Endpoints are built with the identifier
\* stored under key (Network, Network-Endpoints).
AssociationsUseNetworkEndpointsKey ==
    \A i \in 1..Len(emitted) :
        (IsAssociation(emitted[i]) /\ emitted[i].item = "Network-Endpoints") =>
            /\ emitted[i].key = VpcAttachmentKey("Network", "Network-Endpoints")
            /\ emitted[i].att # NoId
            /\ emitted[i].att = LastSet(i, emitted[i].key)

\* Without Network-Main no association, propagation or attachment entry is created.
NothingBuiltWithoutNetworkMain ==
    ~HasNetworkMain => \A i \in 1..Len(emitted) : ~IsLink(emitted[i]) /\ ~IsSet(emitted[i])

\* The error of the finished stack of scope Network/us-east-1 is of `kind`
\* when Network-Main is absent from the configuration.
FailsWithoutNetworkMain(kind) ==
    \A k \in 1..Len(results) :
        (results[k].scope = NetworkScope /\ ~HasNetworkMain) => results[k].err.kind = kind

\* C24 as stated: the association of VPC Network-Endpoints is built with the
\* attachment under key (Network, Network-Endpoints), and with Network-Main
\* absent from the configuration the build fails with AttachmentNotFound
\* instead of creating an association.
C24_FailsWithAttachmentNotFound ==
    /\ AssociationsUseNetworkEndpointsKey
    /\ NothingBuiltWithoutNetworkMain
    /\ FailsWithoutNetworkMain("TransitGatewayAttachmentNotFound")

\* C24, amended: the association of VPC Network-Endpoints is built with the
\* attachment under key (Network, Network-Endpoints), and with Network-Main
\* absent from the configuration the build fails with the error
\* "Transit Gateway Network-Main not found", raised when the attachment is
\* resolved, and creates no association.
C24_FailsWithTransitGatewayNotFound ==
    /\ AssociationsUseNetworkEndpointsKey
    /\ NothingBuiltWithoutNetworkMain
    /\ FailsWithoutNetworkMain("TransitGatewayNotFound")
    /\ (err # NoErr /\ err.kind = "TransitGatewayNotFound") => err.names = <<"Network-Main">>

\* The stack of Network/us-east-1 has failed on the attachment of
\* Network-Endpoints in a configuration without Network-Main.
C24_Witness ==
    /\ ~HasNetworkMain
    /\ \E k \in 1..Len(results) :
           /\ results[k].scope = NetworkScope
           /\ results[k].err # NoErr
           /\ results[k].err.names = <<"Network-Main">>


\* C25: when one VPC has attachments to two or more transit gateways of the
\* scope's account, every route table association and propagation is created
\* with the identifier of the attachment it is declared under, never with
\* that of another attachment of the same VPC.
C25_LinkUsesItsOwnAttachment ==
    \A i \in 1..Len(emitted) :
        (IsLink(emitted[i]) /\ emitted[i].src = "vpc") =>
            \E j \in 1..(i - 1) :
                /\ IsSet(emitted[j])
                /\ emitted[j].scope = emitted[i].scope
                /\ AttachmentOf(emitted[j]) = AttachmentOf(emitted[i])
                /\ emitted[j].att = emitted[i].att


\* ------------------------------------------------------------------ cross-account lookups of one scope
\* An accepter VPC with one route table whose entries target peering
\* `peeringName`: a route to a CIDR block and, with `prefixList` set, a route
\* to a prefix list.
AccepterVpc(name, account, region, routeTableName, peeringName, prefixList) ==
    Vpc(name, FALSE, <<account>>, {}, region,
        << [name |-> routeTableName,
            routes |-> << VpcRoute("ToHub", "vpcPeering", peeringName, "10.8.0.0/16", Undefined) >>
                       \o (IF prefixList = Undefined THEN <<>>
                           ELSE << VpcRoute("ToHubList", "vpcPeering", peeringName, Undefined, prefixList) >>)] >>,
        <<>>)

\* Two peerings requested by Hub (Network, us-east-1): the route tables of the
\* two accepters have one name, names that differ in a separator only, or
\* different names; their routes use one prefix list name or none.
PeeringLookupConfigs ==
    { NetworkConfig(<< HubVpc,
                       AccepterVpc("Spoke", "Shared", "us-east-1", "Spoke-Rt", "HubSpoke", spokeList),
                       AccepterVpc("Branch", account, "us-west-2", routeTableName, "HubBranch", branchList) >>,
                    <<>>, <<>>, <<>>, <<>>,
                    << Peering("HubSpoke", "Hub", "Spoke"), Peering("HubBranch", "Hub", "Branch") >>) :
        account \in AccountNames,
        routeTableName \in {"Spoke-Rt", "SpokeRt", "BranchRt"},
        spokeList \in {Undefined, "SharedPrefixes"},
        branchList \in {Undefined, "SharedPrefixes"} }

\* The endpoint configurations without routes and firewalls: the load
\* balancer has endpoints in one VPC or in two.
GwlbLookupConfigs ==
    { c \in EndpointConfigs :
        /\ \A i \in 1..Len(c.vpcs) : c.vpcs[i].routeTables[1].routes = <<>>
        /\ c.centralNetworkServices.networkFirewall.firewalls = <<>> }

LookupConfigs == PeeringLookupConfigs \cup GwlbLookupConfigs

LookupInit ==
    /\ cfg \in LookupConfigs
    /\ dxPublishes = FALSE
    /\ scopeIdx = 0
    /\ pc = "idle"
    /\ stack = NoScope
    /\ peeringList = <<>>
    /\ crossAcctRouteProvider = FALSE
    /\ prefixListMap = EmptyMap
    /\ routeTableMap = EmptyMap
    /\ transitGateways = EmptyMap
    /\ transitGatewayRouteTables = EmptyMap
    /\ transitGatewayAttachments = EmptyMap
    /\ dxGatewayMap = EmptyMap
    /\ vpcMap = EmptyMap
    /\ subnetMap = EmptyMap
    /\ gwlbMap = EmptyMap
    /\ targetGroupMap = EmptyMap
    /\ firewallMap = EmptyMap
    /\ nfwPolicyMap = EmptyMap
    /\ dnsFirewallMap = EmptyMap
    /\ queryLogMap = EmptyMap
    /\ resolverRuleMap = EmptyMap
    /\ emitted = <<>>
    /\ err = NoErr
    /\ results = <<>>
    /\ NoPipeline
    /\ NoInvocations
    /\ NoExclusions

LookupSpec == LookupInit /\ [][CentralNext]_vars

\* A cross-account lookup of a route table, a prefix list or an endpoint service.
IsCrossAcctLookup(e) ==
    e.type = "SsmParameterLookup" /\ e.src \in {"routeTable", "prefixList", "gwlbEndpointService"}

\* C26: within one scope every cross-account lookup that is created has a
\* construct identifier distinct from those of all other lookups of the
\* stack, so that no build is aborted by a duplicate identifier, whether two
\* accepter VPCs share a route table name, two accepter accounts share a
\* prefix list name, or two VPCs have endpoints of one load balancer.
C26_LookupIdsDistinct ==
    /\ err.kind # "DuplicateConstructId"
    /\ \A i, j \in 1..Len(emitted) :
           (/\ i < j
            /\ IsCrossAcctLookup(emitted[i]) /\ emitted[j].type = "SsmParameterLookup"
            /\ emitted[i].scope = emitted[j].scope
            /\ LookupStack(emitted[i].src) = LookupStack(emitted[j].src)) =>
               LookupConstructId(LookupIdName(emitted[i])) # LookupConstructId(LookupIdName(emitted[j]))


\* ------------------------------------------------------------------ transit gateway peering attachments
\* The route entries of a transit gateway route table of the peering
\* configurations: none, a route to the peering, and a blackhole before it.
PeeringRouteChoices ==
    { <<>>,
      << TgwRoute("10.5.0.0/16", Undefined, FALSE, PeeringAttachment("MainToEdge")) >>,
      << TgwRoute("10.0.0.0/8", Undefined, TRUE, NoAttachment),
         TgwRoute("10.5.0.0/16", Undefined, FALSE, PeeringAttachment("MainToEdge")) >> }

\* Transit gateway Main (Network, us-east-1) requests peering MainToEdge with
\* Edge in us-west-2, a transit gateway of another account or of the same.
TgwPeeringConfigs ==
    { [NetworkConfig(<<>>, <<>>, <<>>, <<>>, <<>>, <<>>)
          EXCEPT !.transitGateways = << Tgw("Main", "Network", "us-east-1", mainRoutes),
                                        Tgw("Edge", account, "us-west-2", edgeRoutes) >>,
                 !.transitGatewayPeering =
                     << [name |-> "MainToEdge",
                         requester |-> [transitGatewayName |-> "Main", account |-> "Network",
                                        region |-> "us-east-1"],
                         accepter |-> [transitGatewayName |-> "Edge", account |-> account,
                                       region |-> "us-west-2"]] >>] :
        account \in AccountNames, mainRoutes \in PeeringRouteChoices, edgeRoutes \in PeeringRouteChoices }

TgwPeeringInit ==
    /\ cfg \in TgwPeeringConfigs
    /\ dxPublishes = FALSE
    /\ scopeIdx = 0
    /\ pc = "idle"
    /\ stack = NoScope
    /\ peeringList = <<>>
    /\ crossAcctRouteProvider = FALSE
    /\ prefixListMap = EmptyMap
    /\ routeTableMap = EmptyMap
    /\ transitGateways = EmptyMap
    /\ transitGatewayRouteTables = EmptyMap
    /\ transitGatewayAttachments = EmptyMap
    /\ dxGatewayMap = EmptyMap
    /\ vpcMap = EmptyMap
    /\ subnetMap = EmptyMap
    /\ gwlbMap = EmptyMap
    /\ targetGroupMap = EmptyMap
    /\ firewallMap = EmptyMap
    /\ nfwPolicyMap = EmptyMap
    /\ dnsFirewallMap = EmptyMap
    /\ queryLogMap = EmptyMap
    /\ resolverRuleMap = EmptyMap
    /\ emitted = <<>>
    /\ err = NoErr
    /\ results = <<>>
    /\ NoPipeline
    /\ NoInvocations
    /\ NoExclusions

TgwPeeringSpec == TgwPeeringInit /\ [][Next]_vars

\* The scope of one side of a transit gateway peering.
PeeringSideScope(side) == [account |-> GetAccountId(side.account), region |-> side.region]

\* A route or prefix list reference to a transit gateway peering attachment.
IsPeeringAttachmentRoute(e) == IsRoute(e) /\ e.src = "peering"

\* C27: the identifier of a transit gateway peering attachment is read from
\* the local parameter only in the scope that owns the requester transit
\* gateway; in the accepter's scope it is resolved by an attachment lookup,
\* also when both sides are of one account in different regions.
C27_LocalKeyOnlyInRequesterScope ==
    \A i \in 1..Len(emitted) :
        IsPeeringAttachmentRoute(emitted[i]) =>
            LET requester == GetTgwPeeringRequesterAccepterConfig(emitted[i].key, "requester")
                accepter == GetTgwPeeringRequesterAccepterConfig(emitted[i].key, "accepter")
            IN  /\ emitted[i].att.via = "ssm" => emitted[i].scope = PeeringSideScope(requester)
                /\ emitted[i].scope = PeeringSideScope(accepter) => emitted[i].att.via = "attachmentLookup"


\* ------------------------------------------------------------------ LoggingStack: CloudWatch exclusion list
MaxExclusions == 2

\* accountsConfig.mandatoryAccounts and workloadAccounts, with their units.
LoggingAccounts ==
    << [name |-> "Network", organizationalUnit |-> "Infrastructure"],
       [name |-> "Shared", organizationalUnit |-> "Workloads"] >>

\* globalConfig.enabledRegions
EnabledRegions == <<"us-east-1", "us-west-2">>

\* CloudWatchLogsExclusionConfig; an absent organizationalUnits, accounts or
\* logGroupNames is the empty array, which the code treats alike, and
\* hasRegions is false for an absent regions.
Exclusion(organizationalUnits, accounts, hasRegions, regions, excludeAll, logGroupNames) ==
    [organizationalUnits |-> organizationalUnits, accounts |-> accounts, hasRegions |-> hasRegions,
     regions |-> regions, excludeAll |-> excludeAll, logGroupNames |-> logGroupNames]

\* The exclusions a configuration draws from.
ExclusionPool ==
    { Exclusion(<<>>, <<"Network">>, TRUE, <<"us-east-1">>, "undefined", <<"lg-a">>),
      Exclusion(<<>>, <<"Network">>, TRUE, <<"us-east-1">>, "undefined", <<"lg-a", "lg-b">>),
      Exclusion(<<>>, <<"Network", "Shared">>, FALSE, <<>>, "true", <<>>),
      Exclusion(<<"Root">>, <<>>, TRUE, <<"us-west-2">>, "false", <<"lg-c">>),
      Exclusion(<<"Workloads">>, <<"Shared">>, TRUE, <<"us-east-1">>, "undefined", <<"lg-d">>),
      Exclusion(<<"Infrastructure">>, <<>>, FALSE, <<>>, "undefined", <<"lg-b">>) }

\* output.push(...items) for each array of `arrays`, in order.
RECURSIVE Flatten(_)
Flatten(arrays) == IF arrays = <<>> THEN <<>> ELSE Head(arrays) \o Flatten(Tail(arrays))

\* getAccountsFromOu
GetAccountsFromOu(ouNames) ==
    IF Includes(ouNames, "Root")
    THEN [i \in 1..Len(LoggingAccounts) |-> LoggingAccounts[i].name]
    ELSE Flatten([k \in 1..Len(ouNames) |->
                     LET inOu == SelectSeq(LoggingAccounts,
                                           LAMBDA a : a.organizationalUnit = ouNames[k])
                     IN  [i \in 1..Len(inOu) |-> inOu[i].name]])

\* reduceCloudWatchExclusionAccountByRegion
ReduceCloudWatchExclusionAccountByRegion(accountItem, exclusion) ==
    LET regions == IF exclusion.hasRegions THEN exclusion.regions ELSE EnabledRegions
    IN  [i \in 1..Len(regions) |->
            [account |-> GetAccountId(accountItem), region |-> regions[i],
             excludeAll |-> exclusion.excludeAll, logGroupNames |-> exclusion.logGroupNames]]

\* convertCloudWatchExclusionAccountsToAccountIds
ConvertCloudWatchExclusionAccountsToAccountIds(accountsList, exclusion) ==
    Flatten([i \in 1..Len(accountsList) |->
                ReduceCloudWatchExclusionAccountByRegion(accountsList[i], exclusion)])

\* convertCloudWatchExclusionToAccountIds
ConvertCloudWatchExclusionToAccountIds(exclusion) ==
    ConvertCloudWatchExclusionAccountsToAccountIds(GetAccountsFromOu(exclusion.organizationalUnits),
                                                   exclusion)
        \o ConvertCloudWatchExclusionAccountsToAccountIds(exclusion.accounts, exclusion)

\* obj.account === output.account && obj.region === output.region
SamePair(a, b) == a.account = b.account /\ a.region = b.region

\* processedItems.forEach(...): the pairs in the order they first appear.
RECURSIVE UniquePairs(_, _)
UniquePairs(items, unique) ==
    IF items = <<>> THEN unique
    ELSE LET pair == [account |-> Head(items).account, region |-> Head(items).region]
             findItem == \E i \in 1..Len(unique) : SamePair(unique[i], pair)
         IN  UniquePairs(Tail(items), IF findItem THEN unique ELSE Append(unique, pair))

\* allLogGroupNames.push(...obj.logGroupNames) for each item of the pair.
AllLogGroupNames(filteredItems) ==
    Flatten([i \in 1..Len(filteredItems) |-> filteredItems[i].logGroupNames])

\* The entry pushed to `output` for one unique pair.
MergedItem(uniqueElement, items) ==
    LET filteredItems == SelectSeq(items, LAMBDA item : SamePair(item, uniqueElement))
        globalExclude == IF \E i \in 1..Len(filteredItems) : filteredItems[i].excludeAll = "true"
                         THEN "true" ELSE "undefined"
    IN  [account |-> uniqueElement.account, region |-> uniqueElement.region,
         excludeAll |-> globalExclude, logGroupNames |-> AllLogGroupNames(filteredItems)]

\* prepareCloudWatchExclusionList, first loop.
PrepareConvert ==
    /\ loggingPc = "convert"
    /\ processedItems' = Flatten([i \in 1..Len(exclusionList) |->
                                     ConvertCloudWatchExclusionToAccountIds(exclusionList[i])])
    /\ loggingPc' = "unique"
    /\ UNCHANGED << stackVars, pipelineVars, handlerVars, exclusionList, excludeItemsMapUnique, output >>

\* prepareCloudWatchExclusionList, the unique (account, region) pairs.
PrepareUnique ==
    /\ loggingPc = "unique"
    /\ excludeItemsMapUnique' = UniquePairs(processedItems, <<>>)
    /\ loggingPc' = "merge"
    /\ UNCHANGED << stackVars, pipelineVars, handlerVars, exclusionList, processedItems, output >>

\* prepareCloudWatchExclusionList, the merge per pair and the return.
PrepareMerge ==
    /\ loggingPc = "merge"
    /\ output' = [k \in 1..Len(excludeItemsMapUnique) |->
                     MergedItem(excludeItemsMapUnique[k], processedItems)]
    /\ loggingPc' = "returned"
    /\ UNCHANGED << stackVars, pipelineVars, handlerVars, exclusionList, processedItems,
                    excludeItemsMapUnique >>

LoggingInit ==
    /\ cfg = NetworkConfig(<<>>, <<>>, <<>>, <<>>, <<>>, <<>>)
    /\ dxPublishes = FALSE
    /\ scopeIdx = 0
    /\ pc = "idle"
    /\ stack = NoScope
    /\ peeringList = <<>>
    /\ crossAcctRouteProvider = FALSE
    /\ prefixListMap = EmptyMap
    /\ routeTableMap = EmptyMap
    /\ transitGateways = EmptyMap
    /\ transitGatewayRouteTables = EmptyMap
    /\ transitGatewayAttachments = EmptyMap
    /\ dxGatewayMap = EmptyMap
    /\ vpcMap = EmptyMap
    /\ subnetMap = EmptyMap
    /\ gwlbMap = EmptyMap
    /\ targetGroupMap = EmptyMap
    /\ firewallMap = EmptyMap
    /\ nfwPolicyMap = EmptyMap
    /\ dnsFirewallMap = EmptyMap
    /\ queryLogMap = EmptyMap
    /\ resolverRuleMap = EmptyMap
    /\ emitted = <<>>
    /\ err = NoErr
    /\ results = <<>>
    /\ NoPipeline
    /\ NoInvocations
    /\ exclusionList \in SeqsUpTo(ExclusionPool, MaxExclusions)
    /\ loggingPc = "convert"
    /\ processedItems = <<>>
    /\ excludeItemsMapUnique = <<>>
    /\ output = <<>>

LoggingNext ==
    \/ PrepareConvert
    \/ PrepareUnique
    \/ PrepareMerge

LoggingSpec == LoggingInit /\ [][LoggingNext]_vars

\* The (account, region) pairs of the decomposed input.
ProcessedPairs == { << processedItems[i].account, processedItems[i].region >> : i \in 1..Len(processedItems) }

\* The log group names given for a pair anywhere in the input.
NamesOfPair(pair) ==
    UNION { Range(processedItems[i].logGroupNames) :
                i \in { j \in 1..Len(processedItems) :
                            << processedItems[j].account, processedItems[j].region >> = pair } }

\* How often `name` occurs in the array `names`.
Occurrences(names, name) == Cardinality({ i \in 1..Len(names) : names[i] = name })

\* The value returned has exactly one entry for every pair of the input and
\* none for another pair.
OneEntryPerPair ==
    /\ \A pair \in ProcessedPairs :
           Cardinality({ k \in 1..Len(output) : << output[k].account, output[k].region >> = pair }) = 1
    /\ \A k \in 1..Len(output) : << output[k].account, output[k].region >> \in ProcessedPairs

\* The names of an entry are the names given for its pair.
NamesOfEntryAreThoseOfPair ==
    \A k \in 1..Len(output) :
        Range(output[k].logGroupNames) = NamesOfPair(<< output[k].account, output[k].region >>)

\* C30: prepareCloudWatchExclusionList returns exactly one merged entry for
\* every distinct (account, region) pair of its input, and the logGroupNames
\* of an entry contain every log group name given for the pair exactly once.
C30_OneEntryPerPairNamesOnce ==
    loggingPc = "returned" =>
        /\ OneEntryPerPair
        /\ NamesOfEntryAreThoseOfPair
        /\ \A k \in 1..Len(output) :
               \A name \in Range(output[k].logGroupNames) :
                   Occurrences(output[k].logGroupNames, name) = 1
====
